---- MODULE Spec2Model ----
(***************************************************************************)
(* A model of monty's host bridge (crates/monty-python: the dataclass      *)
(* registry, the dataclass conversions, UnknownDataclass, the external     *)
(* call dispatch) and of the run loop the tests of crates/monty exercise.  *)
(*                                                                         *)
(* Python objects and MontyObjects are tagged records.  A Python dict      *)
(* that is only looked up by key is a function; a dict whose order is      *)
(* observable (attrs, kwargs) is a sequence of <<key, value>> pairs with   *)
(* distinct keys.  A PyResult is [ok |-> TRUE, val |-> v] or               *)
(* [ok |-> FALSE, exc |-> e].                                              *)
(***************************************************************************)
EXTENDS Integers, Sequences, FiniteSets, TLC

VARIABLES
    dicts,      \* the heap of Python dicts that back registries: Seq(type_id -> type)
    handles,    \* the DcRegistry handles: Seq([dict |-> index into dicts, root |-> handle it stems from])
    last,       \* what the last registry or conversion operation was given and returned
    held,       \* the MontyObject a host instance was converted to, with that instance
    obj,        \* the PyUnknownDataclass that Python code holds
    ulast,      \* what the last UnknownDataclass operation was given and returned
    runs,       \* the runs made so far, in order: program, inputs, exit
    env         \* the namespace the last finished run ended with

vars == <<dicts, handles, last, held, obj, ulast, runs, env>>

None == [none |-> TRUE]

NoOp == [op |-> "none"]

(***************************************************************************)
(* Bounds of the model.                                                    *)
(***************************************************************************)
MaxHandles == 3
MaxDicts == 2
MaxInt == 2
MaxAttrs == 2
MaxVal == 1
MaxRuns == 3
MaxTests == 3
MaxIter == 3
MaxStep == 2
\* range(1000) and i % 13 of the test for_loop_str_append_assign.
TestSize == 1000
TestStep == 13

(***************************************************************************)
(* Values.                                                                 *)
(***************************************************************************)
PyInt(n) == [py |-> "int", n |-> n]
PyStr(s) == [py |-> "str", s |-> s]
PyList(xs) == [py |-> "list", items |-> xs]
PyType(c) == [py |-> "type", cls |-> c]
PyInst(c, vals) == [py |-> "inst", cls |-> c, vals |-> vals]

MInt(n) == [m |-> "Int", n |-> n]
MStr(s) == [m |-> "String", s |-> s]
MList(xs) == [m |-> "List", items |-> xs]
MNone == [m |-> "None"]
MRange(size) == [m |-> "Range", size |-> size]
MBool(b) == [m |-> "Bool", b |-> b]
MExc(kind, msg) == [m |-> "Exc", kind |-> kind, msg |-> msg]
MDataclass(name, type_id, field_names, attrs, frozen) ==
    [m |-> "Dataclass", name |-> name, type_id |-> type_id,
     field_names |-> field_names, attrs |-> attrs, frozen |-> frozen]

Ok(v) == [ok |-> TRUE, val |-> v]
Err(kind, msg) == [ok |-> FALSE, exc |-> [kind |-> kind, msg |-> msg]]

(***************************************************************************)
(* Ordered dicts as sequences of <<key, value>> pairs.                     *)
(***************************************************************************)
Keys(d) == {d[i][1] : i \in DOMAIN d}

HasKey(d, k) == \E i \in DOMAIN d : d[i][1] = k

GetItem(d, k) == d[CHOOSE i \in DOMAIN d : d[i][1] = k][2]

\* dict.set_item: an existing key keeps its position, a new key goes last.
SetItem(d, k, v) ==
    IF HasKey(d, k)
    THEN [i \in DOMAIN d |-> IF d[i][1] = k THEN <<k, v>> ELSE d[i]]
    ELSE Append(d, <<k, v>>)

\* dict == dict in Python: the same keys with equal values, in any order.
DictEq(a, b) ==
    /\ Keys(a) = Keys(b)
    /\ \A k \in Keys(a) : GetItem(a, k) = GetItem(b, k)

(***************************************************************************)
(* The host's dataclass types.  A type is known by its address (the        *)
(* type_id); __dataclass_fields__ lists, in declaration order, the fields  *)
(* with their _field_type marker, init flag and default.                   *)
(***************************************************************************)
Classes == {"Point", "Line", "Counter"}

Addr(c) ==
    CASE c = "Point" -> 101
      [] c = "Line" -> 102
      [] c = "Counter" -> 103

      [] c = "UnknownDataclass" -> 104

\* The dataclass types and the pyclass UnknownDataclass.
Types == Classes \cup {"UnknownDataclass"}

TypeIds == {Addr(c) : c \in Types}

ClassOfAddr(a) == CHOOSE c \in Types : Addr(c) = a

Field(name, field_type, init, default) ==
    [name |-> name, field_type |-> field_type, init |-> init, default |-> default]

\* class Point (frozen): x: int; y: int
\* class Line: start: Point
\* class Counter: limit: ClassVar[int] = 9; n: int; total: int = field(init=False, default=0)
dataclass_fields(c) ==
    CASE c = "Point" -> << Field("x", "_FIELD", TRUE, None), Field("y", "_FIELD", TRUE, None) >>
      [] c = "Line" -> << Field("start", "_FIELD", TRUE, None) >>
      [] c = "Counter" -> << Field("limit", "_FIELD_CLASSVAR", FALSE, PyInt(9)),
                             Field("n", "_FIELD", TRUE, None),
                             Field("total", "_FIELD", FALSE, PyInt(0)) >>

dataclass_params_frozen(c) == c = "Point"

\* The fields dataclasses.fields() reports: the _FIELD ones.
DeclaredFields(c) ==
    {dataclass_fields(c)[i].name : i \in {j \in DOMAIN dataclass_fields(c) :
                                            dataclass_fields(c)[j].field_type = "_FIELD"}}

\* The call original_type(**kwargs).  The __init__ the dataclass decorator
\* generates takes the init fields and the InitVars, rejects any other keyword,
\* requires those without a default, and sets every field; UnknownDataclass is
\* a pyclass with no #[new], which Python cannot instantiate.
Construct(c, kwargs) ==
    LET fs == dataclass_fields(c)
        F == {fs[i] : i \in DOMAIN fs}
        params == {f \in F : \/ f.field_type = "_FIELD" /\ f.init
                             \/ f.field_type = "_FIELD_INITVAR"}
        pnames == {f.name : f \in params}
        set == {f \in F : f.field_type = "_FIELD"
                          /\ (f.default # None \/ (f.init /\ HasKey(kwargs, f.name)))}
    IN  IF c = "UnknownDataclass"
        THEN Err("TypeError", "No constructor defined for UnknownDataclass")
        ELSE IF \E k \in Keys(kwargs) : k \notin pnames
        THEN Err("TypeError", "__init__() got an unexpected keyword argument")
        ELSE IF \E f \in params : f.default = None /\ ~HasKey(kwargs, f.name)
        THEN Err("TypeError", "__init__() missing required argument")
        ELSE Ok(PyInst(c, [n \in {f.name : f \in set} |->
                LET f == CHOOSE g \in set : g.name = n
                IN  IF f.init /\ HasKey(kwargs, n) THEN GetItem(kwargs, n) ELSE f.default]))

(***************************************************************************)
(* PyUnknownDataclass: [py |-> "UnknownDataclass", name, field_names,      *)
(* attrs, frozen], attrs an ordered dict of Python keys and values.        *)
(***************************************************************************)
Hashable(v) == v.py # "list"

\* __dataclass_fields__: a Field for each declared name, in order.
PyUnknownDataclass_dataclass_fields(self) ==
    [i \in DOMAIN self.field_names |-> Field(self.field_names[i], "_FIELD", TRUE, None)]

\* __dataclass_params__.frozen
PyUnknownDataclass_dataclass_params(self) == [frozen |-> self.frozen]

PyUnknownDataclass_getattr(self, name) ==
    IF HasKey(self.attrs, PyStr(name)) THEN Ok(GetItem(self.attrs, PyStr(name)))
    ELSE Err("AttributeError", "'UnknownDataclass' object has no attribute '" \o name \o "'")

\* A faulty __setattr__: no frozen check.
PyUnknownDataclass_setattr_unchecked(self, name, value) ==
    [ok |-> TRUE, val |-> None,
     self |-> [self EXCEPT !.attrs = SetItem(self.attrs, PyStr(name), value)]]

\* __setattr__: the PyResult and the object afterwards.
PyUnknownDataclass_setattr(self, name, value) ==
    IF self.frozen
    THEN [self |-> self] @@ Err("FrozenInstanceError", "cannot assign to field '" \o name \o "'")
    ELSE [ok |-> TRUE, val |-> None,
          self |-> [self EXCEPT !.attrs = SetItem(self.attrs, PyStr(name), value)]]

RECURSIVE PyRepr(_)
RECURSIVE PyReprItems(_, _)
\* repr(value) in Python, for an int, a str (of plain characters), a list.
PyRepr(value) ==
    CASE value.py = "int" ->
            IF value.n < 0 THEN "-" \o PyRepr([value EXCEPT !.n = 0 - value.n])
            ELSE IF value.n < 10
            THEN CASE value.n = 0 -> "0" [] value.n = 1 -> "1" [] value.n = 2 -> "2"
                   [] value.n = 3 -> "3" [] value.n = 4 -> "4" [] value.n = 5 -> "5"
                   [] value.n = 6 -> "6" [] value.n = 7 -> "7" [] value.n = 8 -> "8"
                   [] value.n = 9 -> "9"
            ELSE PyRepr([value EXCEPT !.n = value.n \div 10])
                    \o PyRepr([value EXCEPT !.n = value.n % 10])
      [] value.py = "str" -> "'" \o value.s \o "'"
      [] value.py = "list" -> "[" \o PyReprItems(value.items, 1) \o "]"

PyReprItems(items, i) ==
    IF i > Len(items) THEN ""
    ELSE (IF i = 1 THEN "" ELSE ", ") \o PyRepr(items[i]) \o PyReprItems(items, i + 1)

RECURSIVE join(_, _, _)
\* parts.join(sep)
join(parts, sep, i) ==
    IF i > Len(parts) THEN ""
    ELSE (IF i = 1 THEN "" ELSE sep) \o parts[i] \o join(parts, sep, i + 1)

RECURSIVE repr_loop(_, _, _)
repr_loop(self, i, parts) ==
    IF i > Len(self.field_names) THEN parts
    ELSE LET field_name == self.field_names[i]
         IN  IF HasKey(self.attrs, PyStr(field_name))
             THEN repr_loop(self, i + 1,
                            Append(parts, field_name \o "="
                                            \o PyRepr(GetItem(self.attrs, PyStr(field_name)))))
             ELSE repr_loop(self, i + 1, parts)

\* A faulty __repr__: every attr is listed, in the order of attrs.
PyUnknownDataclass_repr_attrs(self) ==
    Ok("<Unknown Dataclass " \o self.name \o "("
         \o join([i \in DOMAIN self.attrs |->
                     self.attrs[i][1].s \o "=" \o PyRepr(self.attrs[i][2])], ", ", 1)
         \o ")>")

PyUnknownDataclass_repr(self) ==
    Ok("<Unknown Dataclass " \o self.name \o "("
         \o join(repr_loop(self, 1, << >>), ", ", 1) \o ")>")

\* A faulty __eq__: the names are not compared.
PyUnknownDataclass_eq_any_name(self, other) ==
    IF other.py = "UnknownDataclass" THEN DictEq(self.attrs, other.attrs) ELSE FALSE

\* __eq__: other must extract as a PyUnknownDataclass with the same name; then
\* the attrs dicts are compared with Python's ==.
PyUnknownDataclass_eq(self, other) ==
    IF other.py = "UnknownDataclass"
    THEN IF self.name # other.name THEN FALSE
         ELSE DictEq(self.attrs, other.attrs)
    ELSE FALSE

\* hash(value) in Python: an int hashes to itself, a str to a code of its
\* text, a list is unhashable.
PyHash(value) ==
    CASE value.py = "int" -> Ok([isize |-> value.n])
      [] value.py = "str" -> Ok([isize_of_str |-> value.s])
      [] OTHER -> Err("TypeError", "unhashable type: '" \o value.py \o "'")

\* DefaultHasher: the state is what was written so far; finish() is a digest
\* that differs whenever the writes differ.
DefaultHasher_new == << >>

Write(hasher, x) == Append(hasher, x)

finish(hasher) == [siphash |-> hasher]

\* isize::from_ne_bytes(hash_u64.to_ne_bytes()): the same 64 bits, signed.
from_ne_bytes(hash_u64) == [isize |-> hash_u64]

RECURSIVE hash_loop(_, _, _)
hash_loop(self, i, hasher) ==
    IF i > Len(self.field_names) THEN Ok(hasher)
    ELSE LET field_name == self.field_names[i]
             named == Write(hasher, [str |-> field_name])
         IN  IF HasKey(self.attrs, PyStr(field_name))
             THEN LET value_hash == PyHash(GetItem(self.attrs, PyStr(field_name)))
                  IN  IF ~value_hash.ok THEN value_hash
                      ELSE hash_loop(self, i + 1, Write(named, value_hash.val))
             ELSE hash_loop(self, i + 1, named)

\* A faulty __hash__: hashes non-frozen objects too.
PyUnknownDataclass_hash_unfrozen(self) ==
    LET hasher == hash_loop(self, 1, DefaultHasher_new)
    IN  IF ~hasher.ok THEN hasher ELSE Ok(from_ne_bytes(finish(hasher.val)))

PyUnknownDataclass_hash(self) ==
    IF ~self.frozen THEN Err("TypeError", "unhashable type: 'UnknownDataclass'")
    ELSE LET hasher == hash_loop(self, 1, DefaultHasher_new)
         IN  IF ~hasher.ok THEN hasher ELSE Ok(from_ne_bytes(finish(hasher.val)))

(***************************************************************************)
(* DcRegistry: a handle on a Python dict type_id -> type.                  *)
(***************************************************************************)
EmptyDict == [k \in {} |-> None]

DcRegistry_new == EmptyDict

\* A faulty insert: refuses a type_id that is already present.
DcRegistry_insert_once(reg, t) ==
    IF Addr(t.cls) \in DOMAIN reg
    THEN [ok |-> FALSE, reg |-> reg]
    ELSE [ok |-> TRUE, reg |-> [k \in DOMAIN reg \cup {Addr(t.cls)} |->
                                    IF k = Addr(t.cls) THEN t ELSE reg[k]]]

\* A faulty insert: the dict is left with the new entry alone.
DcRegistry_insert_alone(reg, t) ==
    [ok |-> TRUE, reg |-> [k \in {Addr(t.cls)} |-> t]]

\* A faulty insert: registers nothing.
DcRegistry_insert_nothing(reg, t) == [ok |-> TRUE, reg |-> reg]

\* insert(obj), for a type object obj: set_item under the object's own
\* address; reg is the dict afterwards.  Setting an int key cannot fail.
DcRegistry_insert(reg, t) ==
    [ok |-> TRUE, reg |-> [k \in DOMAIN reg \cup {Addr(t.cls)} |->
                              IF k = Addr(t.cls) THEN t ELSE reg[k]]]

DcRegistry_get(reg, type_id) ==
    IF type_id \in DOMAIN reg THEN [some |-> TRUE, val |-> reg[type_id]] ELSE None

RECURSIVE from_list_loop(_, _, _)
from_list_loop(reg, list, i) ==
    IF i > Len(list) THEN [ok |-> TRUE, reg |-> reg]
    ELSE LET r == DcRegistry_insert(reg, list[i])
         IN  IF ~r.ok THEN r ELSE from_list_loop(r.reg, list, i + 1)

\* dataclass_registry is None or [list |-> the types].
DcRegistry_from_list(list) ==
    IF list = None THEN [ok |-> TRUE, reg |-> DcRegistry_new]
    ELSE from_list_loop(DcRegistry_new, list.list, 1)

\* A faulty clone_ref: the clone gets a copy of the dict.
DcRegistry_clone_copy(hs, ds, h) ==
    [handles |-> Append(hs, [dict |-> Len(ds) + 1, root |-> hs[h].root]),
     dicts |-> Append(ds, ds[hs[h].dict])]

\* clone_ref: a new handle on the same dict (a refcount bump).
DcRegistry_clone_ref(hs, ds, h) ==
    [handles |-> Append(hs, [dict |-> hs[h].dict, root |-> hs[h].root]), dicts |-> ds]

Reg(h) == dicts[handles[h].dict]

\* The types a registry is built from and asked for in the registry's own runs.
RegClasses == {"Point", "Counter"}

TypeLists ==
    {None} \cup {[list |-> l] : l \in
        {<< >>} \cup {<<PyType(c)>> : c \in RegClasses}
            \cup {<<PyType(c1), PyType(c2)>> : c1 \in RegClasses, c2 \in RegClasses}}

NoConv == /\ held = None /\ obj = None /\ ulast = NoOp /\ runs = None /\ env = None

KeepOthers == UNCHANGED <<held, obj, ulast, runs, env>>

InitRegistry ==
    /\ dicts = << >>
    /\ handles = << >>
    /\ last = NoOp
    /\ NoConv

New ==
    /\ Len(dicts) < MaxDicts
    /\ Len(handles) < MaxHandles
    /\ dicts' = Append(dicts, DcRegistry_new)
    /\ handles' = Append(handles, [dict |-> Len(dicts) + 1, root |-> Len(handles) + 1])
    /\ last' = [op |-> "new", h |-> Len(handles) + 1]
    /\ KeepOthers

FromList ==
    \E list \in TypeLists :
        /\ Len(dicts) < MaxDicts
        /\ Len(handles) < MaxHandles
        /\ LET r == DcRegistry_from_list(list)
           IN  IF r.ok
               THEN /\ dicts' = Append(dicts, r.reg)
                    /\ handles' = Append(handles, [dict |-> Len(dicts) + 1,
                                                   root |-> Len(handles) + 1])
                    /\ last' = [op |-> "from_list", h |-> Len(handles) + 1,
                                list |-> list, ok |-> TRUE]
               ELSE /\ UNCHANGED <<dicts, handles>>
                    /\ last' = [op |-> "from_list", list |-> list, ok |-> FALSE]
        /\ KeepOthers

CloneRef ==
    \E h \in DOMAIN handles :
        /\ Len(handles) < MaxHandles
        /\ LET r == DcRegistry_clone_ref(handles, dicts, h)
           IN  /\ handles' = r.handles
               /\ dicts' = r.dicts
        /\ last' = [op |-> "clone_ref", h |-> h]
        /\ KeepOthers

Insert ==
    \E h \in DOMAIN handles, c \in RegClasses :
        /\ LET r == DcRegistry_insert(Reg(h), PyType(c))
           IN  /\ dicts' = [dicts EXCEPT ![handles[h].dict] = r.reg]
               /\ last' = [op |-> "insert", h |-> h, type_id |-> Addr(c),
                           obj |-> PyType(c), before |-> Reg(h), ok |-> r.ok]
        /\ UNCHANGED handles
        /\ KeepOthers

Get ==
    \E h \in DOMAIN handles, type_id \in {Addr(c) : c \in RegClasses} \cup {0} :
        /\ last' = [op |-> "get", h |-> h, type_id |-> type_id,
                    res |-> DcRegistry_get(Reg(h), type_id)]
        /\ UNCHANGED <<dicts, handles>>
        /\ KeepOthers

NextRegistry == New \/ FromList \/ CloneRef \/ Insert \/ Get

SpecRegistry == InitRegistry /\ [][NextRegistry]_vars

(***************************************************************************)
(* The conversions.  A host-to-engine conversion returns a PyResult and    *)
(* the registry dict as it leaves it; an engine-to-host conversion only    *)
(* reads the registry and also returns the host calls it made.             *)
(***************************************************************************)
\* is_dataclass: the object has __dataclass_fields__ and is not a type.
is_dataclass(value) == value.py \in {"inst", "UnknownDataclass"}

\* value.get_type()
get_type(value) == IF value.py = "inst" THEN value.cls ELSE "UnknownDataclass"

\* value.__dataclass_fields__ and value.__dataclass_params__.frozen
fields_dict(value) ==
    IF value.py = "inst" THEN dataclass_fields(value.cls)
    ELSE PyUnknownDataclass_dataclass_fields(value)

params_frozen(value) ==
    IF value.py = "inst" THEN dataclass_params_frozen(value.cls)
    ELSE PyUnknownDataclass_dataclass_params(value).frozen

\* getattr(value, name): the instance's attribute, or __getattr__.
Getattr(value, name) ==
    IF value.py = "inst"
    THEN IF name \in DOMAIN value.vals THEN Ok(value.vals[name])
         ELSE Err("AttributeError", "object has no attribute '" \o name \o "'")
    ELSE IF value.py = "UnknownDataclass" THEN PyUnknownDataclass_getattr(value, name)
    ELSE Err("AttributeError", "object has no attribute '" \o name \o "'")

\* A host-to-engine result: a PyResult and the registry dict afterwards.
ToReg(r, reg) == [reg |-> reg] @@ r

RECURSIVE py_to_monty(_, _), py_to_monty_items(_, _, _, _),
          dataclass_to_monty(_, _), dataclass_to_monty_loop(_, _, _, _, _)

\* py_to_monty: primitives and lists map one to one; a dataclass instance has
\* its type inserted into the registry and is converted by dataclass_to_monty.
py_to_monty(value, reg) ==
    CASE value.py = "int" -> ToReg(Ok(MInt(value.n)), reg)
      [] value.py = "str" -> ToReg(Ok(MStr(value.s)), reg)
      [] value.py = "list" -> py_to_monty_items(value.items, 1, << >>, reg)
      [] is_dataclass(value) ->
            LET r == DcRegistry_insert(reg, PyType(get_type(value)))
            IN  IF ~r.ok THEN ToReg(Err("RuntimeError", "insert failed"), r.reg)
                ELSE dataclass_to_monty(value, r.reg)
      [] OTHER -> ToReg(Err("TypeError", "Cannot convert to Monty value"), reg)

py_to_monty_items(items, i, acc, reg) ==
    IF i > Len(items) THEN ToReg(Ok(MList(acc)), reg)
    ELSE LET r == py_to_monty(items[i], reg)
         IN  IF ~r.ok THEN r ELSE py_to_monty_items(items, i + 1, Append(acc, r.val), r.reg)

\* The loop over __dataclass_fields__: the _FIELD entries give a field name
\* and an attr each, in order.
dataclass_to_monty_loop(value, fields, i, acc, reg) ==
    IF i > Len(fields) THEN ToReg(Ok(acc), reg)
    ELSE LET f == fields[i]
         IN  IF f.field_type # "_FIELD"
             THEN dataclass_to_monty_loop(value, fields, i + 1, acc, reg)
             ELSE LET field_value == Getattr(value, f.name)
                      k == py_to_monty(PyStr(f.name), reg)
                      v == py_to_monty(field_value.val, k.reg)
                  IN  IF ~field_value.ok THEN ToReg(field_value, reg)
                      ELSE IF ~k.ok THEN k
                      ELSE IF ~v.ok THEN v
                      ELSE dataclass_to_monty_loop(value, fields, i + 1,
                              [field_names |-> Append(acc.field_names, f.name),
                               attrs |-> Append(acc.attrs, <<k.val, v.val>>)], v.reg)

dataclass_to_monty(value, reg) ==
    LET dc_type == get_type(value)
        name == dc_type
        type_id == Addr(dc_type)
        frozen == params_frozen(value)
        r == dataclass_to_monty_loop(value, fields_dict(value), 1,
                                     [field_names |-> << >>, attrs |-> << >>], reg)
    IN  IF ~r.ok THEN r
        ELSE ToReg(Ok(MDataclass(name, type_id, r.val.field_names, r.val.attrs, frozen)),
                   r.reg)

\* An engine-to-host result: a PyResult and the host constructor calls made.
Out(r, calls) == [calls |-> calls] @@ r

RECURSIVE monty_to_py(_, _), monty_to_py_items(_, _, _, _, _),
          dataclass_to_py(_, _, _, _, _, _), dataclass_to_py_kwargs(_, _, _, _, _, _),
          PyUnknownDataclass_new(_, _, _, _, _), PyUnknownDataclass_new_loop(_, _, _, _, _)

\* monty_to_py: primitives and lists map one to one; a Dataclass goes through
\* dataclass_to_py.
monty_to_py(o, reg) ==
    CASE o.m = "Int" -> Out(Ok(PyInt(o.n)), << >>)
      [] o.m = "String" -> Out(Ok(PyStr(o.s)), << >>)
      [] o.m = "List" -> monty_to_py_items(o.items, 1, << >>, << >>, reg)
      [] o.m = "Dataclass" ->
            dataclass_to_py(o.name, o.type_id, o.field_names, o.attrs, o.frozen, reg)

monty_to_py_items(items, i, acc, calls, reg) ==
    IF i > Len(items) THEN Out(Ok(PyList(acc)), calls)
    ELSE LET r == monty_to_py(items[i], reg)
         IN  IF ~r.ok THEN Out(r, calls \o r.calls)
             ELSE monty_to_py_items(items, i + 1, Append(acc, r.val), calls \o r.calls, reg)

\* A faulty kwargs loop: every string key is passed, declared or not.
dataclass_to_py_kwargs_all(field_names, attrs, i, kwargs, calls, reg) ==
    IF i > Len(attrs) THEN Out(Ok(kwargs), calls)
    ELSE LET key == attrs[i][1]
             value == attrs[i][2]
         IN  IF key.m = "String"
             THEN LET v == monty_to_py(value, reg)
                  IN  IF ~v.ok THEN Out(v, calls \o v.calls)
                      ELSE dataclass_to_py_kwargs(field_names, attrs, i + 1,
                              SetItem(kwargs, key.s, v.val), calls \o v.calls, reg)
             ELSE dataclass_to_py_kwargs(field_names, attrs, i + 1, kwargs, calls, reg)

\* The kwargs loop of dataclass_to_py: the attrs with a string key that names
\* a declared field.
dataclass_to_py_kwargs(field_names, attrs, i, kwargs, calls, reg) ==
    IF i > Len(attrs) THEN Out(Ok(kwargs), calls)
    ELSE LET key == attrs[i][1]
             value == attrs[i][2]
         IN  IF key.m = "String" /\ \E j \in DOMAIN field_names : field_names[j] = key.s
             THEN LET v == monty_to_py(value, reg)
                  IN  IF ~v.ok THEN Out(v, calls \o v.calls)
                      ELSE dataclass_to_py_kwargs(field_names, attrs, i + 1,
                              SetItem(kwargs, key.s, v.val), calls \o v.calls, reg)
             ELSE dataclass_to_py_kwargs(field_names, attrs, i + 1, kwargs, calls, reg)

dataclass_to_py(name, type_id, field_names, attrs, frozen, reg) ==
    LET original_type_py == DcRegistry_get(reg, type_id)
    IN  IF original_type_py # None
        THEN LET original_type == original_type_py.val
                 kw == dataclass_to_py_kwargs(field_names, attrs, 1, << >>, << >>, reg)
             IN  IF ~kw.ok THEN kw
                 ELSE Out(Construct(original_type.cls, kw.val),
                          Append(kw.calls, [type |-> original_type, kwargs |-> kw.val]))
        ELSE PyUnknownDataclass_new(name, field_names, attrs, frozen, reg)

PyUnknownDataclass_new_loop(attrs, i, dict, calls, reg) ==
    IF i > Len(attrs) THEN Out(Ok(dict), calls)
    ELSE LET k == monty_to_py(attrs[i][1], reg)
             v == monty_to_py(attrs[i][2], reg)
         IN  IF ~k.ok THEN Out(k, calls \o k.calls)
             ELSE IF ~v.ok THEN Out(v, calls \o k.calls \o v.calls)
             ELSE IF ~Hashable(k.val)
             THEN Out(Err("TypeError", "unhashable type"), calls \o k.calls \o v.calls)
             ELSE PyUnknownDataclass_new_loop(attrs, i + 1, SetItem(dict, k.val, v.val),
                                              calls \o k.calls \o v.calls, reg)

PyUnknownDataclass_new(name, field_names, attrs, frozen, reg) ==
    LET d == PyUnknownDataclass_new_loop(attrs, 1, << >>, << >>, reg)
    IN  IF ~d.ok THEN d
        ELSE Out(Ok([py |-> "UnknownDataclass", name |-> name, field_names |-> field_names,
                     attrs |-> d.val, frozen |-> frozen]), d.calls)


(***************************************************************************)
(* The host side of an external call: the callables of the functions dict  *)
(* and the methods of the host classes.                                    *)
(*   def make_line(p): return Line(start=p)                                *)
(*   def boom(): raise ValueError("boom")                                  *)
(*   def echo(x=0): return x                                               *)
(*   Point.sum(self): return self.x + self.y                               *)
(*   Point.moved(self, dx=0): return Point(self.x + dx, self.y)            *)
(*   Line.first(self): return self.start                                   *)
(***************************************************************************)
Functions == {"make_line", "boom", "echo", "type_of"}

HostFunction(name, args, kwargs) ==
    CASE name = "make_line" ->
            IF Len(args) = 1 /\ kwargs = << >> THEN Ok(PyInst("Line", [start |-> args[1]]))
            ELSE Err("TypeError", "make_line() takes 1 positional argument")
      [] name = "boom" ->
            IF args = << >> /\ kwargs = << >> THEN Err("ValueError", "boom")
            ELSE Err("TypeError", "boom() takes 0 positional arguments")
      [] name = "echo" ->
            IF Len(args) > 1 \/ (\E k \in Keys(kwargs) : k # PyStr("x"))
               \/ (Len(args) = 1 /\ kwargs # << >>)
            THEN Err("TypeError", "echo() takes 1 positional argument")
            ELSE IF Len(args) = 1 THEN Ok(args[1])
            ELSE IF kwargs # << >> THEN Ok(GetItem(kwargs, PyStr("x")))
            ELSE Ok(PyInt(0))
      [] name = "type_of" ->
            IF Len(args) = 1 /\ kwargs = << >>
            THEN Ok(PyType(IF args[1].py = "inst" THEN args[1].cls ELSE "Point"))
            ELSE Err("TypeError", "type_of() takes 1 positional argument")

\* py_self.getattr(function_name): a bound method of the instance's class, or
\* what getattr finds among the attributes.
HostGetattr(py_self, name) ==
    CASE py_self.py = "inst" /\ py_self.cls = "Point" /\ name \in {"sum", "moved"} ->
            Ok([py |-> "method", self |-> py_self, name |-> name])
      [] py_self.py = "inst" /\ py_self.cls = "Line" /\ name = "first" ->
            Ok([py |-> "method", self |-> py_self, name |-> name])
      [] OTHER -> Getattr(py_self, name)

\* Calling what getattr returned.
HostCallMethod(method, args, kwargs) ==
    IF method.py # "method" THEN Err("TypeError", "object is not callable")
    ELSE CASE method.name = "sum" ->
                IF args = << >> /\ kwargs = << >>
                THEN Ok(PyInt(method.self.vals["x"].n + method.self.vals["y"].n))
                ELSE Err("TypeError", "sum() takes 1 positional argument")
           [] method.name = "moved" ->
                IF Len(args) > 1 \/ (Len(args) = 1 /\ kwargs # << >>)
                   \/ \E k \in Keys(kwargs) : k # PyStr("dx")
                THEN Err("TypeError", "moved() got unexpected arguments")
                ELSE LET dx == IF Len(args) = 1 THEN args[1]
                               ELSE IF kwargs # << >> THEN GetItem(kwargs, PyStr("dx"))
                               ELSE PyInt(0)
                     IN  IF dx.py # "int" THEN Err("TypeError", "unsupported operand type(s) for +")
                         ELSE Ok(PyInst("Point", [x |-> PyInt(method.self.vals["x"].n + dx.n),
                                                  y |-> method.self.vals["y"]]))
           [] method.name = "first" ->
                IF args = << >> /\ kwargs = << >> THEN Ok(method.self.vals["start"])
                ELSE Err("TypeError", "first() takes 1 positional argument")

\* exc_py_to_monty: the host exception's kind and message, kept.
exc_py_to_monty(err) == [kind |-> err.kind, msg |-> err.msg]

(***************************************************************************)
(* external.rs.  An inner call returns its PyResult, the registry as it    *)
(* leaves it, and the host invocations it made.                            *)
(***************************************************************************)
Inner(r, reg, invoked) == [reg |-> reg, invoked |-> invoked] @@ r

RECURSIVE convert_args(_, _, _, _), convert_kwargs(_, _, _, _)

\* args.iter().map(monty_to_py).collect(), from position i on.
convert_args(args, i, acc, reg) ==
    IF i > Len(args) THEN Ok(acc)
    ELSE LET r == monty_to_py(args[i], reg)
         IN  IF ~r.ok THEN r ELSE convert_args(args, i + 1, Append(acc, r.val), reg)

\* A faulty kwargs loop: nothing is passed on.
convert_kwargs_dropped(kwargs, i, acc, reg) == Ok(<< >>)

\* The loop that fills py_kwargs.
convert_kwargs(kwargs, i, acc, reg) ==
    IF i > Len(kwargs) THEN Ok(acc)
    ELSE LET k == monty_to_py(kwargs[i][1], reg)
             v == monty_to_py(kwargs[i][2], reg)
         IN  IF ~k.ok THEN k
             ELSE IF ~v.ok THEN v
             ELSE IF ~Hashable(k.val) THEN Err("TypeError", "unhashable type")
             ELSE convert_kwargs(kwargs, i + 1, SetItem(acc, k.val, v.val), reg)

dispatch_method_call_inner(function_name, args, kwargs, reg) ==
    IF args = << >>
    THEN Inner(Err("RuntimeError", "Method call missing self argument"), reg, << >>)
    ELSE LET py_self == monty_to_py(args[1], reg)
         IN  IF ~py_self.ok THEN Inner(py_self, reg, << >>)
             ELSE LET method == HostGetattr(py_self.val, function_name)
                  IN  IF ~method.ok THEN Inner(method, reg, << >>)
                      ELSE IF Len(args) = 1 /\ kwargs = << >>
                      THEN LET result == HostCallMethod(method.val, << >>, << >>)
                               inv == <<[callee |-> method.val, args |-> << >>, kwargs |-> << >>]>>
                           IN  IF ~result.ok THEN Inner(result, reg, inv)
                               ELSE LET r == py_to_monty(result.val, reg)
                                    IN  Inner(r, r.reg, inv)
                      ELSE LET remaining_args == convert_args(args, 2, << >>, reg)
                               py_kwargs == convert_kwargs(kwargs, 1, << >>, reg)
                           IN  IF ~remaining_args.ok THEN Inner(remaining_args, reg, << >>)
                               ELSE IF ~py_kwargs.ok THEN Inner(py_kwargs, reg, << >>)
                               ELSE LET result == HostCallMethod(method.val, remaining_args.val,
                                                                 py_kwargs.val)
                                        inv == <<[callee |-> method.val,
                                                  args |-> remaining_args.val,
                                                  kwargs |-> py_kwargs.val]>>
                                    IN  IF ~result.ok THEN Inner(result, reg, inv)
                                        ELSE LET r == py_to_monty(result.val, reg)
                                             IN  Inner(r, r.reg, inv)

\* A faulty conversion of the inner result: an error is answered as None.
ExternalResult_swallowed(inner) ==
    CHOOSE reply \in {[reply |-> "Return", val |-> IF r.ok THEN r.val ELSE MNone,
                       reg |-> r.reg, invoked |-> r.invoked] : r \in {inner}} : TRUE

\* The ExternalResult of an inner call, with the registry and the invocations.
ExternalResult(inner) ==
    CHOOSE reply \in {IF r.ok
                      THEN [reply |-> "Return", val |-> r.val, reg |-> r.reg,
                            invoked |-> r.invoked]
                      ELSE [reply |-> "Error", exc |-> exc_py_to_monty(r.exc),
                            reg |-> r.reg, invoked |-> r.invoked] : r \in {inner}} : TRUE

dispatch_method_call(function_name, args, kwargs, reg) ==
    ExternalResult(dispatch_method_call_inner(function_name, args, kwargs, reg))

call_inner(function_name, args, kwargs, reg) ==
    IF function_name \notin Functions
    THEN Inner(Err("KeyError", "External function '" \o function_name \o "' not found"),
               reg, << >>)
    ELSE LET py_args == convert_args(args, 1, << >>, reg)
             py_kwargs == convert_kwargs(kwargs, 1, << >>, reg)
         IN  IF ~py_args.ok THEN Inner(py_args, reg, << >>)
             ELSE IF ~py_kwargs.ok THEN Inner(py_kwargs, reg, << >>)
             ELSE LET result == HostFunction(function_name, py_args.val, py_kwargs.val)
                      inv == <<[callee |-> function_name, args |-> py_args.val,
                                kwargs |-> py_kwargs.val]>>
                  IN  IF ~result.ok THEN Inner(result, reg, inv)
                      ELSE LET r == py_to_monty(result.val, reg)
                           IN  Inner(r, r.reg, inv)

ExternalFunctionRegistry_call(function_name, args, kwargs, reg) ==
    ExternalResult(call_inner(function_name, args, kwargs, reg))


(***************************************************************************)
(* The conversion runs: one registry handle, host instances flowing in,    *)
(* records flowing out, external calls in between.                         *)
(***************************************************************************)
Ints == 1..MaxInt

PointInsts == {PyInst("Point", [x |-> PyInt(a), y |-> PyInt(2)]) : a \in Ints}

LineInsts == {PyInst("Line", [start |-> PyInst("Point", [x |-> PyInt(1), y |-> PyInt(2)])])}

\* total is 0 after construction and whatever the program made it later.
CounterInsts == {PyInst("Counter", [n |-> PyInt(1), total |-> PyInt(t)]) : t \in {0, 1}}

Instances == PointInsts \cup LineInsts \cup CounterInsts

\* Records a host builds by hand, as the test of crates/monty does: the attrs
\* are up to MaxAttrs keys of KeyPool without repetition, or both fields of a
\* Point and more, the i-th with value Int(i).  A record with Point's type_id
\* is frozen, as Point is.
KeyPool == {MStr("x"), MStr("y"), MStr("z"), MInt(7)}

KeySeqs ==
    {ks \in UNION {[1..n -> KeyPool] : n \in 0..MaxAttrs} :
        \A i \in DOMAIN ks, j \in DOMAIN ks : i # j => ks[i] # ks[j]}
    \cup {<<MStr("x"), MStr("y"), MStr("z")>>, <<MStr("z"), MStr("y"), MInt(7), MStr("x")>>}

AttrLists == {[i \in DOMAIN ks |-> <<ks[i], MInt(i)>>] : ks \in KeySeqs}

RecordInputs ==
    {MDataclass("Point", Addr("Point"), <<"x", "y">>, attrs, TRUE) : attrs \in AttrLists}
    \cup {MDataclass("Point", 0, <<"x", "y">>, attrs, frozen) :
            attrs \in AttrLists, frozen \in BOOLEAN}

HandMadePoint ==
    MDataclass("Point", 0, <<"x", "y">>,
               << <<MStr("x"), MInt(1)>>, <<MStr("y"), MInt(2)>> >>, TRUE)

EngineRecords == {HandMadePoint} \cup (IF held = None THEN {} ELSE {held.m})

\* A Point record without its field y: Point's constructor refuses it.
BrokenPoint ==
    MDataclass("Point", Addr("Point"), <<"x", "y">>, << <<MStr("x"), MInt(1)>> >>, TRUE)

ArgLists ==
    {<< >>, <<MInt(1)>>, <<BrokenPoint>>} \cup {<<r>> : r \in EngineRecords}
        \cup {<<r, MInt(1)>> : r \in EngineRecords}

KwargLists == {<< >>, << <<MStr("dx"), MInt(1)>> >>}

Init ==
    /\ \E list \in {None, [list |-> <<PyType("Point")>>]} :
          dicts = <<DcRegistry_from_list(list).reg>>
    /\ handles = <<[dict |-> 1, root |-> 1]>>
    /\ last = NoOp
    /\ NoConv

KeepUnknown == UNCHANGED <<obj, ulast, runs, env>>

\* A result without the registry it came with.
Res(r) == [x \in DOMAIN r \ {"reg"} |-> r[x]]

SetReg(h, reg) == dicts' = [dicts EXCEPT ![handles[h].dict] = reg]

\* py_to_monty of one of the host values in S.
PyToMontyOf(S) ==
    \E h \in DOMAIN handles, value \in S :
        \E r \in {py_to_monty(value, Reg(h))} :
            /\ SetReg(h, r.reg)
            /\ held' = IF r.ok THEN [src |-> value, m |-> r.val] ELSE held
            /\ last' = [op |-> "py_to_monty", h |-> h, src |-> value, res |-> Res(r)]
            /\ UNCHANGED handles
            /\ KeepUnknown

PyToMonty == PyToMontyOf(Instances)

\* A run argument: a Point or a Line.
RunArgument == PyToMontyOf(PointInsts \cup LineInsts)

DataclassToMonty ==
    \E h \in DOMAIN handles, value \in Instances :
        \E r \in {dataclass_to_monty(value, Reg(h))} :
            /\ SetReg(h, r.reg)
            /\ held' = IF r.ok THEN [src |-> value, m |-> r.val] ELSE held
            /\ last' = [op |-> "dataclass_to_monty", h |-> h, src |-> value, res |-> Res(r)]
            /\ UNCHANGED handles
            /\ KeepUnknown

DataclassToPy ==
    \E h \in DOMAIN handles,
       rec \in RecordInputs \cup (IF held = None THEN {} ELSE {held.m}) :
        \E r \in {dataclass_to_py(rec.name, rec.type_id, rec.field_names, rec.attrs,
                                  rec.frozen, Reg(h))} :
            /\ last' = [op |-> "dataclass_to_py", h |-> h, rec |-> rec,
                        src |-> IF held # None /\ held.m = rec THEN held.src ELSE None,
                        known |-> rec.type_id \in DOMAIN Reg(h), res |-> r]
            /\ UNCHANGED <<dicts, handles, held>>
            /\ KeepUnknown

Call ==
    \E h \in DOMAIN handles, function_name \in Functions \cup {"missing"},
       args \in ArgLists, kwargs \in KwargLists :
        \E r \in {ExternalFunctionRegistry_call(function_name, args, kwargs, Reg(h))} :
            /\ SetReg(h, r.reg)
            /\ last' = [op |-> "call", h |-> h, name |-> function_name, args |-> args,
                        kwargs |-> kwargs, before |-> DOMAIN Reg(h), reply |-> Res(r)]
            /\ UNCHANGED <<handles, held>>
            /\ KeepUnknown

DispatchMethodCall ==
    \E h \in DOMAIN handles, function_name \in {"sum", "moved", "first", "nope"},
       args \in ArgLists, kwargs \in KwargLists :
        \E r \in {dispatch_method_call(function_name, args, kwargs, Reg(h))} :
            /\ SetReg(h, r.reg)
            /\ last' = [op |-> "dispatch_method_call", h |-> h, name |-> function_name,
                        args |-> args, kwargs |-> kwargs, before |-> DOMAIN Reg(h),
                        reply |-> Res(r)]
            /\ UNCHANGED <<handles, held>>
            /\ KeepUnknown

\* Conversions in and out.
Next == Insert \/ PyToMonty \/ DataclassToMonty \/ DataclassToPy

Spec == Init /\ [][Next]_vars

\* Values flowing in, as arguments and as what externals return.
NextExternal == RunArgument \/ Call \/ DispatchMethodCall

SpecExternal == Init /\ [][NextExternal]_vars


(***************************************************************************)
(* The evaluator, in standard execution: expressions, statements and the   *)
(* builtins, over a namespace of name/value pairs and the text printed so  *)
(* far.  An evaluation ends in a frame exit: a value, a raised exception,  *)
(* or a method call it cannot make itself.                                 *)
(***************************************************************************)
Constant(v) == [e |-> "Constant", val |-> v]
Name(id) == [e |-> "Name", id |-> id]
Op(left, op, right) == [e |-> "Op", left |-> left, op |-> op, right |-> right]
CallBuiltin(func, args) == [e |-> "Call", func |-> func, args |-> args]
AttrCall(object, attr, args) == [e |-> "AttrCall", object |-> object, attr |-> attr, args |-> args]

Expression(e) == [n |-> "Expression", expr |-> e]
Assign(target, e) == [n |-> "Assign", target |-> target, expr |-> e]
OpAssign(target, op, e) == [n |-> "OpAssign", target |-> target, op |-> op, expr |-> e]
For(target, iter, body) == [n |-> "For", target |-> target, iter |-> iter, body |-> body]
If(test, body, or_else) == [n |-> "If", test |-> test, body |-> body, or_else |-> or_else]
RaiseStmt(e) == [n |-> "Raise", expr |-> e]

Value(v, out) == [t |-> "Value", val |-> v, out |-> out]
Raise(kind, msg, out) == [t |-> "Raise", exc |-> [kind |-> kind, msg |-> msg], out |-> out]
MethodCallExit(name, args, out) == [t |-> "MethodCall", name |-> name, args |-> args, out |-> out]

Digit(d) ==
    CASE d = 0 -> "0" [] d = 1 -> "1" [] d = 2 -> "2" [] d = 3 -> "3" [] d = 4 -> "4"
      [] d = 5 -> "5" [] d = 6 -> "6" [] d = 7 -> "7" [] d = 8 -> "8" [] d = 9 -> "9"

RECURSIVE Decimal(_)
Decimal(n) ==
    IF n < 0 THEN "-" \o Decimal(0 - n)
    ELSE IF n < 10 THEN Digit(n) ELSE Decimal(n \div 10) \o Digit(n % 10)

\* "{object}": the text print writes for an int, a str, None.
Display(v) ==
    CASE v.m = "Int" -> Decimal(v.n)
      [] v.m = "String" -> v.s
      [] v.m = "None" -> "None"
      [] v.m = "Bool" -> IF v.b THEN "True" ELSE "False"
      [] v.m = "Exc" -> v.msg

type_name(v) ==
    CASE v.m = "Int" -> "int"
      [] v.m = "String" -> "str"
      [] v.m = "List" -> "list"
      [] v.m = "None" -> "NoneType"
      [] v.m = "Range" -> "range"
      [] v.m = "Dataclass" -> v.name
      [] v.m = "Bool" -> "bool"
      [] v.m = "Exc" -> v.kind

bool(v) ==
    CASE v.m = "Int" -> v.n # 0
      [] v.m = "Bool" -> v.b
      [] v.m = "String" -> v.s # ""
      [] v.m = "List" -> v.items # << >>
      [] v.m = "None" -> FALSE
      [] OTHER -> TRUE

\* left + right.
add(left, right, out) ==
    CASE left.m = "Int" /\ right.m = "Int" -> Value(MInt(left.n + right.n), out)
      [] left.m = "String" /\ right.m = "String" -> Value(MStr(left.s \o right.s), out)
      [] left.m = "List" /\ right.m = "List" -> Value(MList(left.items \o right.items), out)
      [] OTHER -> Raise("TypeError", "unsupported operand type(s) for +: '" \o type_name(left)
                                       \o "' and '" \o type_name(right) \o "'", out)

\* left % right: the remainder with the sign of right.
modulus(left, right, out) ==
    IF left.m # "Int" \/ right.m # "Int"
    THEN Raise("TypeError", "unsupported operand type(s) for %: '" \o type_name(left)
                              \o "' and '" \o type_name(right) \o "'", out)
    ELSE IF right.n = 0 THEN Raise("ZeroDivisionError", "integer modulo by zero", out)
    ELSE IF right.n > 0 THEN Value(MInt(left.n % right.n), out)
    ELSE Value(MInt(0 - ((0 - left.n) % (0 - right.n))), out)

\* left == right: values of different types are not equal.
eq(left, right, out) == Value(MBool(left = right), out)

binary(op, left, right, out) ==
    CASE op = "%" -> modulus(left, right, out)
      [] op = "==" -> eq(left, right, out)
      [] OTHER -> add(left, right, out)

RECURSIVE evaluate(_, _, _)
RECURSIVE evaluate_all(_, _, _, _, _)
RECURSIVE print_loop(_, _, _, _)

\* The arguments of a call, left to right; the first that does not give a
\* value ends the evaluation.
evaluate_all(args, i, namespace, out, done) ==
    IF i > Len(args) THEN [t |-> "Values", vals |-> done, out |-> out]
    ELSE CHOOSE y \in {IF r.t # "Value" THEN r
                       ELSE evaluate_all(args, i + 1, namespace, r.out, Append(done, r.val)) :
                       r \in {evaluate(args[i], namespace, out)}} : TRUE

\* print: each argument is evaluated and written, a space before all but the
\* first.
print_loop(args, i, namespace, out) ==
    IF i > Len(args) THEN Value(MNone, out \o "\n")
    ELSE CHOOSE y \in {IF r.t # "Value" THEN r
                       ELSE print_loop(args, i + 1, namespace,
                                       r.out \o (IF i = 1 THEN "" ELSE " ") \o Display(r.val)) :
                       r \in {evaluate(args[i], namespace, out)}} : TRUE

one_arg(name, args, namespace, out) ==
    IF Len(args) # 1
    THEN Raise("TypeError", name \o "() takes exactly exactly one argument ("
                              \o Decimal(Len(args)) \o " given)", out)
    ELSE evaluate(args[1], namespace, out)

\* String::try_from(object): the text of a String, an error for the rest.
try_into(object, out) ==
    IF object.m = "String" THEN Value(object.s, out)
    ELSE Raise("TypeError", "'" \o type_name(object) \o "' object is not a string", out)

\* A faulty exception_arm: whatever the argument is, its text is the message.
exception_arm_any_object(name, args, namespace, out) ==
    CHOOSE y \in {IF object.t # "Value" THEN object
                  ELSE Value(MExc(name, Display(object.val)), object.out) :
                  object \in {one_arg(name, args, namespace, out)}} : TRUE

\* The arm shared by ValueError, TypeError and NameError.
exception_arm(name, args, namespace, out) ==
    CHOOSE y \in {IF object.t # "Value" THEN object
                  ELSE CHOOSE z \in {IF str.t # "Value" THEN str
                                     ELSE Value(MExc(name, str.val), str.out) :
                                     str \in {try_into(object.val, object.out)}} : TRUE :
                  object \in {one_arg(name, args, namespace, out)}} : TRUE

len(v) ==
    CASE v.m = "String" -> [some |-> TRUE, val |-> Len(v.s)]
      [] v.m = "List" -> [some |-> TRUE, val |-> Len(v.items)]
      [] v.m = "Range" -> [some |-> TRUE, val |-> v.size]
      [] OTHER -> None

Builtins_call_function(self, args, namespace, out) ==
    CASE self = "print" -> print_loop(args, 1, namespace, out)
      [] self = "range" ->
            IF Len(args) # 1
            THEN Raise("TodoError", "range() takes exactly one argument", out)
            ELSE CHOOSE y \in {IF object.t # "Value" THEN object
                               ELSE IF object.val.m # "Int"
                               THEN Raise("TypeError", "'" \o type_name(object.val)
                                            \o "' object cannot be interpreted as an integer",
                                          object.out)
                               ELSE Value(MRange(object.val.n), object.out) :
                               object \in {evaluate(args[1], namespace, out)}} : TRUE
      [] self = "len" ->
            CHOOSE y \in {IF object.t # "Value" THEN object
                          ELSE IF len(object.val) = None
                          THEN Raise("TypeError", "Object of type " \o type_name(object.val)
                                                    \o " has no len()", object.out)
                          ELSE Value(MInt(len(object.val).val), object.out) :
                          object \in {one_arg("len", args, namespace, out)}} : TRUE
      [] self = "ValueError" -> exception_arm("ValueError", args, namespace, out)
      [] self = "TypeError" -> exception_arm("TypeError", args, namespace, out)
      [] self = "NameError" -> exception_arm("NameError", args, namespace, out)

evaluate(expr, namespace, out) ==
    CASE expr.e = "Constant" -> Value(expr.val, out)
      [] expr.e = "Name" ->
            IF HasKey(namespace, expr.id) THEN Value(GetItem(namespace, expr.id), out)
            ELSE Raise("NameError", "name '" \o expr.id \o "' is not defined", out)
      [] expr.e = "Op" ->
            CHOOSE y \in {IF l.t # "Value" THEN l
                          ELSE CHOOSE z \in {IF r.t # "Value" THEN r
                                             ELSE binary(expr.op, l.val, r.val, r.out) :
                                             r \in {evaluate(expr.right, namespace, l.out)}} : TRUE :
                          l \in {evaluate(expr.left, namespace, out)}} : TRUE
      [] expr.e = "Call" -> Builtins_call_function(expr.func, expr.args, namespace, out)
      [] expr.e = "AttrCall" ->
            CHOOSE y \in {IF object.t # "Value" THEN object
                          ELSE IF object.val.m # "Dataclass"
                          THEN Raise("AttributeError", "'" \o type_name(object.val)
                                        \o "' object has no attribute '" \o expr.attr \o "'",
                                     object.out)
                          ELSE CHOOSE z \in {IF a.t # "Values" THEN a
                                             ELSE MethodCallExit(expr.attr,
                                                                 <<object.val>> \o a.vals, a.out) :
                                             a \in {evaluate_all(expr.args, 1, namespace,
                                                                 object.out, << >>)}} : TRUE :
                          object \in {evaluate(expr.object, namespace, out)}} : TRUE

\* The state of a frame between statements: the namespace, the text printed,
\* the value of the statement just run.
Frame(namespace, out, val) == [t |-> "Frame", namespace |-> namespace, out |-> out, val |-> val]

\* A faulty iterate: a range yields its upper bound too.
iterate_inclusive(v) ==
    CASE v.m = "Range" -> [some |-> TRUE, val |-> [i \in 1..(IF v.size >= 0 THEN v.size + 1 ELSE 0) |-> MInt(i - 1)]]
      [] v.m = "List" -> [some |-> TRUE, val |-> v.items]
      [] OTHER -> None

\* The values a for loop binds its target to.
iterate(v) ==
    CASE v.m = "Range" -> [some |-> TRUE, val |-> [i \in 1..(IF v.size > 0 THEN v.size ELSE 0) |-> MInt(i - 1)]]
      [] v.m = "List" -> [some |-> TRUE, val |-> v.items]
      [] OTHER -> None

RECURSIVE execute(_, _, _, _)
RECURSIVE execute_node(_, _, _)
RECURSIVE for_loop(_, _, _, _, _)

\* The nodes from position i on; the first that does not leave a frame ends
\* the block.
execute(nodes, i, namespace, out) ==
    IF i > Len(nodes) THEN Frame(namespace, out, MNone)
    ELSE CHOOSE y \in {IF f.t # "Frame" \/ i = Len(nodes) THEN f
                       ELSE execute(nodes, i + 1, f.namespace, f.out) :
                       f \in {execute_node(nodes[i], namespace, out)}} : TRUE

for_loop(node, items, i, namespace, out) ==
    IF i > Len(items) THEN Frame(namespace, out, MNone)
    ELSE CHOOSE y \in {IF f.t # "Frame" THEN f
                       ELSE for_loop(node, items, i + 1, f.namespace, f.out) :
                       f \in {execute(node.body, 1, SetItem(namespace, node.target, items[i]),
                                      out)}} : TRUE

execute_node(node, namespace, out) ==
    CASE node.n = "Pass" -> Frame(namespace, out, MNone)
      [] node.n = "Expression" ->
            CHOOSE y \in {IF r.t # "Value" THEN r ELSE Frame(namespace, r.out, r.val) :
                          r \in {evaluate(node.expr, namespace, out)}} : TRUE
      [] node.n = "Assign" ->
            CHOOSE y \in {IF r.t # "Value" THEN r
                          ELSE Frame(SetItem(namespace, node.target, r.val), r.out, MNone) :
                          r \in {evaluate(node.expr, namespace, out)}} : TRUE
      [] node.n = "OpAssign" ->
            CHOOSE y \in {IF r.t # "Value" THEN r
                          ELSE Frame(SetItem(namespace, node.target, r.val), r.out, MNone) :
                          r \in {evaluate(Op(Name(node.target), node.op, node.expr),
                                          namespace, out)}} : TRUE
      [] node.n = "If" ->
            CHOOSE y \in {IF r.t # "Value" THEN r
                          ELSE CHOOSE z \in {IF f.t # "Frame" THEN f
                                             ELSE Frame(f.namespace, f.out, MNone) :
                                             f \in {execute(IF bool(r.val) THEN node.body
                                                            ELSE node.or_else,
                                                            1, namespace, r.out)}} : TRUE :
                          r \in {evaluate(node.test, namespace, out)}} : TRUE
      [] node.n = "Raise" ->
            CHOOSE y \in {IF r.t # "Value" THEN r
                          ELSE IF r.val.m # "Exc"
                          THEN Raise("TypeError", "exceptions must derive from BaseException",
                                     r.out)
                          ELSE Raise(r.val.kind, r.val.msg, r.out) :
                          r \in {evaluate(node.expr, namespace, out)}} : TRUE
      [] node.n = "For" ->
            CHOOSE y \in {IF r.t # "Value" THEN r
                          ELSE IF iterate(r.val) = None
                          THEN Raise("TypeError", "'" \o type_name(r.val)
                                        \o "' object is not iterable", r.out)
                          ELSE for_loop(node, iterate(r.val).val, 1, namespace, r.out) :
                          r \in {evaluate(node.iter, namespace, out)}} : TRUE

\* What a run hands back: Ok with the value, or Err with the exception, and
\* the text it printed.
Return(val, out) == [t |-> "Return", val |-> val, out |-> out]

\* A faulty frame_exit_to_object: the method call is handed to the caller.
frame_exit_to_caller(frame_exit) ==
    CASE frame_exit.t = "Frame" -> Return(frame_exit.val, frame_exit.out)
      [] frame_exit.t = "Raise" -> frame_exit
      [] frame_exit.t = "MethodCall" -> frame_exit

\* The end of a frame in standard execution: a finished frame returns its
\* value, a raise is the error, a method call becomes NotImplementedError.
frame_exit_to_object(frame_exit) ==
    CASE frame_exit.t = "Frame" -> Return(frame_exit.val, frame_exit.out)
      [] frame_exit.t = "Raise" -> frame_exit
      [] frame_exit.t = "MethodCall" ->
            Raise("NotImplementedError",
                  "Method call '" \o frame_exit.name
                      \o "' not implemented with standard execution", frame_exit.out)

\* A compiled program: the code it was compiled from, the names of its
\* inputs, its nodes.
MontyRun_new(code, input_names, nodes) ==
    [code |-> code, input_names |-> input_names, nodes |-> nodes]

\* The namespace a run starts with: the inputs under their names.
prepare_namespace(input_names, inputs) ==
    [i \in DOMAIN input_names |-> <<input_names[i], inputs[i]>>]

RECURSIVE bind_all(_, _, _, _)
bind_all(namespace, input_names, inputs, i) ==
    IF i > Len(input_names) THEN namespace
    ELSE bind_all(SetItem(namespace, input_names[i], inputs[i]), input_names, inputs, i + 1)

\* A faulty run: the inputs are bound over the namespace the run before
\* left.
run_in_last_namespace(self, inputs) ==
    [frame_exit |-> execute(self.nodes, 1,
                            bind_all(env, self.input_names, inputs, 1), "")]

\* One run of a program: a new namespace and an empty output, then the nodes.
run(self, inputs) ==
    [frame_exit |-> execute(self.nodes, 1, prepare_namespace(self.input_names, inputs), "")]

run_no_limits(self, inputs) ==
    CHOOSE y \in {[frame_exit |-> r.frame_exit, exit |-> frame_exit_to_object(r.frame_exit)] :
                  r \in {run(self, inputs)}} : TRUE

(***************************************************************************)
(* Executor::new as the tests parse_error_tests and execute_ok_tests show  *)
(* it: an operation on two constants is evaluated when the executor is     *)
(* built, and its failure is the error of the construction, with the span  *)
(* of the expression; with a name as operand it is left to the run.        *)
(***************************************************************************)
RECURSIVE prepare_expression(_)
prepare_expression(expr) ==
    IF expr.e # "Op" THEN Ok(expr)
    ELSE CHOOSE y \in
           {IF ~l.ok THEN l
            ELSE IF ~r.ok THEN r
            ELSE IF l.val.e = "Constant" /\ r.val.e = "Constant"
            THEN CHOOSE z \in {IF v.t = "Value" THEN Ok(Constant(v.val))
                               ELSE Err(v.exc.kind, v.exc.msg) :
                               v \in {binary(expr.op, l.val.val, r.val.val, "")}} : TRUE
            ELSE Ok(Op(l.val, expr.op, r.val)) :
            l \in {prepare_expression(expr.left)},
            r \in {prepare_expression(expr.right)}} : TRUE

\* e.summary() of the error of a one-line program: the span runs from the
\* first column to the column after the last.
summary(code, exc) ==
    "Exc: (1-1 to 1-" \o Decimal(Len(code) + 1) \o ") " \o exc.kind \o ": " \o exc.msg

\* Executor::new(code, "test.py", input_names) for a program of one expression.
Executor_new(code, input_names, expr) ==
    CHOOSE y \in {IF ~p.ok THEN [ok |-> FALSE, exc |-> p.exc, summary |-> summary(code, p.exc)]
                  ELSE Ok(MontyRun_new(code, input_names, <<Expression(p.val)>>)) :
                  p \in {prepare_expression(expr)}} : TRUE

(***************************************************************************)
(* The UnknownDataclass runs: an object made by dataclass_to_py from a     *)
(* record whose type is in no registry, then used from Python.             *)
(***************************************************************************)
UValues == {MInt(n) : n \in 1..MaxVal} \cup {MList(<< >>)}

UAttrLists ==
    {a \in UNION {[1..n -> {MStr("x"), MStr("y")} \X UValues] : n \in 0..MaxAttrs} :
        \A i \in DOMAIN a, j \in DOMAIN a : i # j => a[i][1] # a[j][1]}

UnknownOf(name, field_names, attrs, frozen) ==
    PyUnknownDataclass_new(name, field_names, attrs, frozen, DcRegistry_new).val

\* What an object is compared with: other UnknownDataclasses, and an int.
Others ==
    {UnknownOf(name, <<"x", "y">>, attrs, TRUE) : name \in {"P", "Q"}, attrs \in UAttrLists}
        \cup {PyInt(1)}

InitUnknown ==
    /\ \E field_names \in {<<"x", "y">>, <<"y">>}, attrs \in UAttrLists, frozen \in BOOLEAN :
          obj = UnknownOf("P", field_names, attrs, frozen)
    /\ ulast = NoOp
    /\ dicts = << >>
    /\ handles = << >>
    /\ last = NoOp
    /\ held = None
    /\ runs = None
    /\ env = None

KeepKnown == UNCHANGED <<dicts, handles, last, held, runs, env>>

SetAttr ==
    \E name \in {"x", "z"}, value \in {PyInt(1), PyList(<< >>)} :
        \E r \in {PyUnknownDataclass_setattr(obj, name, value)} :
            /\ obj' = r.self
            /\ ulast' = [op |-> "setattr", name |-> name, value |-> value, before |-> obj,
                         res |-> [x \in DOMAIN r \ {"self"} |-> r[x]]]
            /\ KeepKnown

GetAttr ==
    \E name \in {"x", "z"} :
        /\ ulast' = [op |-> "getattr", name |-> name,
                     res |-> PyUnknownDataclass_getattr(obj, name)]
        /\ UNCHANGED obj
        /\ KeepKnown

Eq ==
    \E other \in Others :
        /\ ulast' = [op |-> "eq", other |-> other, res |-> PyUnknownDataclass_eq(obj, other)]
        /\ UNCHANGED obj
        /\ KeepKnown

Hash ==
    /\ ulast' = [op |-> "hash", res |-> PyUnknownDataclass_hash(obj)]
    /\ UNCHANGED obj
    /\ KeepKnown

Repr ==
    /\ ulast' = [op |-> "repr", res |-> PyUnknownDataclass_repr(obj)]
    /\ UNCHANGED obj
    /\ KeepKnown

NextUnknown == SetAttr \/ GetAttr \/ Eq \/ Hash \/ Repr

SpecUnknown == InitUnknown /\ [][NextUnknown]_vars


(***************************************************************************)
(* The parser of src/main.rs: python_parser statements to nodes.  A result *)
(* is Ok with the node, Err with a message, or the panic of a todo!() or   *)
(* a failed assert.  Expr::Assign in a Node::Expression is written         *)
(* Assign(target, value); an or_else of None is the empty block.           *)
(***************************************************************************)
POk(v) == [r |-> "Ok", val |-> v]
PErr(msg) == [r |-> "Err", msg |-> msg]
Panic(msg) == [r |-> "Panic", msg |-> msg]

\* first(v): the only element of v (the message without the raw debug text).
first(v) ==
    IF Len(v) # 1 THEN PErr("Expected 1 element, got " \o Decimal(Len(v))) ELSE POk(v[1])

RECURSIVE parse_expression(_)
parse_expression(expression) ==
    CASE expression.x = "Name" -> POk(Name(expression.name))
      [] expression.x = "Int" -> POk(Constant(MInt(expression.n)))
      [] expression.x = "String" -> POk(Constant(MStr(join(expression.parts, "", 1))))
      [] expression.x = "Bop" ->
            CHOOSE y \in {IF left.r # "Ok" THEN left
                          ELSE CHOOSE z \in {IF right.r # "Ok" THEN right
                                             ELSE POk(Op(left.val, expression.op, right.val)) :
                                             right \in {parse_expression(expression.rhs)}} : TRUE :
                          left \in {parse_expression(expression.lhs)}} : TRUE
      [] OTHER -> Panic(expression.x)

\* lhs = rhs
parse_assignment(lhs, rhs) ==
    IF Len(rhs) # 1 THEN Panic("assertion failed: rhs.len() == 1")
    ELSE CHOOSE y \in {IF target.r # "Ok" THEN target
                       ELSE IF target.val.x # "Name" THEN Panic("not yet implemented")
                       ELSE CHOOSE z \in {IF value.r # "Ok" THEN value
                                          ELSE POk(Assign(target.val.name, value.val)) :
                                          value \in {parse_expression(rhs[1])}} : TRUE :
                       target \in {first(lhs)}} : TRUE

RECURSIVE parse_statement(_)
RECURSIVE parse_statements(_, _, _)
RECURSIVE parse_compound(_)
RECURSIVE if_loop(_, _, _)

\* statements.into_iter().map(parse_statement).collect(), from position i on.
parse_statements(statements, i, nodes) ==
    IF i > Len(statements) THEN POk(nodes)
    ELSE CHOOSE y \in {IF node.r # "Ok" THEN node
                       ELSE parse_statements(statements, i + 1, Append(nodes, node.val)) :
                       node \in {parse_statement(statements[i])}} : TRUE

parse_if(test, body, or_else) ==
    CHOOSE y \in {IF t.r # "Ok" THEN t
                  ELSE CHOOSE z \in {IF b.r # "Ok" THEN b ELSE POk(If(t.val, b.val, or_else)) :
                                     b \in {parse_statements(body, 1, << >>)}} : TRUE :
                  t \in {parse_expression(test)}} : TRUE

\* A faulty ifs.into_iter().rev(): the tests in source order.
rev_forward(ifs) == ifs

\* ifs.into_iter().rev()
rev(ifs) == [i \in DOMAIN ifs |-> ifs[Len(ifs) + 1 - i]]

\* The loop over the remaining tests, last to first, each wrapping the node
\* built so far.
if_loop(ifs_iter, i, node) ==
    IF i > Len(ifs_iter) THEN POk(node)
    ELSE CHOOSE y \in {IF n.r # "Ok" THEN n ELSE if_loop(ifs_iter, i + 1, n.val) :
                       n \in {parse_if(ifs_iter[i].test, ifs_iter[i].body, <<node>>)}} : TRUE

\* Some(parse_statements(statements)?) or None, for an else block.
parse_or_else(or_else) ==
    IF or_else = None THEN POk(<< >>) ELSE parse_statements(or_else.val, 1, << >>)

parse_compound(compound) ==
    CASE compound.c = "If" ->
            CHOOSE y \in {IF or_else.r # "Ok" THEN or_else
                          ELSE CHOOSE z \in {IF node.r # "Ok" THEN node
                                             ELSE if_loop(ifs_iter, 2, node.val) :
                                             node \in {parse_if(ifs_iter[1].test, ifs_iter[1].body,
                                                                or_else.val)}} : TRUE :
                          or_else \in {parse_or_else(compound.or_else)},
                          ifs_iter \in {rev(compound.ifs)}} : TRUE
      [] compound.c = "For" ->
            IF compound.async THEN Panic("assertion failed: !r#async")
            ELSE CHOOSE y \in
                   {IF item1.r # "Ok" THEN item1
                    ELSE IF item.r # "Ok" THEN item
                    ELSE IF iter1.r # "Ok" THEN iter1
                    ELSE IF iter.r # "Ok" THEN iter
                    ELSE IF body.r # "Ok" THEN body
                    ELSE IF or_else.r # "Ok" THEN or_else
                    ELSE POk([n |-> "For", target |-> item.val.id, iter |-> iter.val,
                              body |-> body.val, or_else |-> or_else.val]) :
                    item1 \in {first(compound.item)},
                    item \in {IF first(compound.item).r # "Ok" THEN first(compound.item)
                              ELSE parse_expression(first(compound.item).val)},
                    iter1 \in {first(compound.iterator)},
                    iter \in {IF first(compound.iterator).r # "Ok" THEN first(compound.iterator)
                              ELSE parse_expression(first(compound.iterator).val)},
                    body \in {parse_statements(compound.for_block, 1, << >>)},
                    or_else \in {parse_or_else(compound.else_block)}} : TRUE
      [] OTHER -> Panic(compound.c)

parse_statement(statement) ==
    CASE statement.s = "Pass" -> POk([n |-> "Pass"])
      [] statement.s = "Assignment" ->
            IF Len(statement.rhs) # 1 THEN Panic("assertion failed: rhs.len() == 1")
            ELSE parse_assignment(statement.lhs, statement.rhs[1])
      [] statement.s = "TypeAnnotation" -> POk([n |-> "Pass"])
      [] statement.s = "TypedAssignment" -> parse_assignment(statement.lhs, statement.rhs)
      [] statement.s = "AugmentedAssignment" -> Panic("not yet implemented: AugmentedAssignment")
      [] statement.s = "Compound" -> parse_compound(statement.compound)
      [] OTHER -> Panic("not yet implemented: " \o statement.s)

(***************************************************************************)
(* The program runs: compiled programs, each run any number of times, in   *)
(* any order, with one of its input lists.                                 *)
(***************************************************************************)
OpenPoint ==
    MDataclass("Point", Addr("Point"), <<"x", "y">>,
               << <<MStr("x"), MInt(1)>>, <<MStr("y"), MInt(2)>> >>, FALSE)

\* 1 + 2
ProgramAdd == MontyRun_new("1 + 2", << >>, <<Expression(Op(Constant(MInt(1)), "+", Constant(MInt(2))))>>)

\* 'foobar'
ProgramString == MontyRun_new("'foobar'", << >>, <<Expression(Constant(MStr("foobar")))>>)

\* point.sum()
ProgramSum == MontyRun_new("point.sum()", <<"point">>, <<Expression(AttrCall(Name("point"), "sum", << >>))>>)

\* print('go'); v = point.moved(1 + 1); v
ProgramMoved ==
    MontyRun_new("print('go')\nv = point.moved(1 + 1)\nv", <<"point">>,
                 <<Expression(CallBuiltin("print", <<Constant(MStr("go"))>>)),
                   Assign("v", AttrCall(Name("point"), "moved",
                                        <<Op(Constant(MInt(1)), "+", Constant(MInt(1)))>>)),
                   Expression(Name("v"))>>)

\* if a: point.sum()   and then a
ProgramBranch ==
    MontyRun_new("if a:\n    point.sum()\na", <<"a", "point">>,
                 <<If(Name("a"), <<Expression(AttrCall(Name("point"), "sum", << >>))>>, << >>),
                   Expression(Name("a"))>>)

\* for i in range(a): x = i   and then x
ProgramLoop ==
    MontyRun_new("for i in range(a):\n    x = i\nx", <<"a">>,
                 <<For("i", CallBuiltin("range", <<Name("a")>>), <<Assign("x", Name("i"))>>),
                   Expression(Name("x"))>>)

\* print(a, 'x'); a + 1
ProgramPrint ==
    MontyRun_new("print(a, 'x')\na + 1", <<"a">>,
                 <<Expression(CallBuiltin("print", <<Name("a"), Constant(MStr("x"))>>)),
                   Expression(Op(Name("a"), "+", Constant(MInt(1))))>>)

\* v = ''; for i in range(2): v += 'x'   and then len(v)
ProgramAppend ==
    MontyRun_new("v = ''\nfor i in range(2):\n    v += 'x'\nlen(v)", << >>,
                 <<Assign("v", Constant(MStr(""))),
                   For("i", CallBuiltin("range", <<Constant(MInt(2))>>),
                       <<OpAssign("v", "+", Constant(MStr("x")))>>),
                   Expression(CallBuiltin("len", <<Name("v")>>))>>)

RunInputs ==
    {[ex |-> ex, inputs |-> << >>] : ex \in {ProgramAdd, ProgramString, ProgramAppend}}
        \cup {[ex |-> ProgramSum, inputs |-> <<point>>] : point \in {HandMadePoint, OpenPoint}}
        \cup {[ex |-> ProgramMoved, inputs |-> <<HandMadePoint>>]}
        \cup {[ex |-> ProgramBranch, inputs |-> <<MInt(a), HandMadePoint>>] : a \in 0..MaxVal}
        \cup {[ex |-> ProgramLoop, inputs |-> <<MInt(a)>>] : a \in 0..MaxVal}
        \cup {[ex |-> ProgramPrint, inputs |-> <<MInt(a)>>] : a \in 1..MaxVal}

InitRun ==
    /\ runs = << >>
    /\ env = << >>
    /\ last = NoOp
    /\ dicts = << >>
    /\ handles = << >>
    /\ held = None
    /\ obj = None
    /\ ulast = NoOp

\* run_no_limits on one of the programs.
Run ==
    /\ Len(runs) < MaxRuns
    /\ \E input \in RunInputs :
          \E r \in {run_no_limits(input.ex, input.inputs)} :
              /\ runs' = Append(runs, [code |-> input.ex.code, inputs |-> input.inputs,
                                       exit |-> r.exit])
              /\ last' = [op |-> "run", code |-> input.ex.code, inputs |-> input.inputs,
                          frame_exit |-> IF r.frame_exit.t = "Frame" THEN [t |-> "Frame"]
                                         ELSE r.frame_exit,
                          exit |-> r.exit]
              /\ env' = IF r.frame_exit.t = "Frame" THEN r.frame_exit.namespace ELSE env
    /\ UNCHANGED <<dicts, handles, held, obj, ulast>>

NextRun == Run

SpecRun == InitRun /\ [][NextRun]_vars

(***************************************************************************)
(* The parser runs: statements as python_parser hands them over, parsed,   *)
(* and for an if statement the node then executed.                         *)
(***************************************************************************)
XName(name) == [x |-> "Name", name |-> name]
XInt(n) == [x |-> "Int", n |-> n]
XString(parts) == [x |-> "String", parts |-> parts]
XBop(op, lhs, rhs) == [x |-> "Bop", op |-> op, lhs |-> lhs, rhs |-> rhs]

\* lhs = rhs1 = rhs2 is lhs with <<rhs1, rhs2>>.
Assignment(lhs, rhs) == [s |-> "Assignment", lhs |-> lhs, rhs |-> rhs]
AugmentedAssignment(lhs, op, rhs) ==
    [s |-> "AugmentedAssignment", lhs |-> lhs, op |-> op, rhs |-> rhs]
Compound(compound) == [s |-> "Compound", compound |-> compound]
Some(v) == [val |-> v]

TestName(i) == CASE i = 1 -> "a" [] i = 2 -> "b" [] i = 3 -> "c" [] i = 4 -> "d" [] OTHER -> "e"

\* if a: r = 1   elif b: r = 2   ...   and possibly   else: r = 0
IfStatement(n, has_else) ==
    Compound([c |-> "If",
              ifs |-> [i \in 1..n |->
                         [test |-> XName(TestName(i)),
                          body |-> <<Assignment(<<XName("r")>>, << <<XInt(i)>> >>)>>]],
              or_else |-> IF has_else
                          THEN Some(<<Assignment(<<XName("r")>>, << <<XInt(0)>> >>)>>)
                          ELSE None])

ForStatement(iterator, async, else_block) ==
    Compound([c |-> "For", async |-> async, item |-> <<XName("i")>>, iterator |-> iterator,
              for_block |-> <<Assignment(<<XName("x")>>, << <<XName("i")>> >>)>>,
              else_block |-> else_block])

Statements ==
    {[s |-> "Pass"], [s |-> "Return"], [s |-> "Expressions"],
     [s |-> "TypeAnnotation", lhs |-> <<XName("x")>>, rhs |-> XName("int")],
     [s |-> "TypedAssignment", lhs |-> <<XName("x")>>, tp |-> XName("int"), rhs |-> <<XInt(1)>>],
     Compound([c |-> "While"])}
    \cup {Assignment(lhs, rhs) :
            lhs \in {<<XName("x")>>, <<XName("x"), XName("y")>>, <<XInt(1)>>},
            rhs \in {<< >>, << <<XInt(1)>> >>, << <<XString(<<"a", "b">>)>> >>,
                     << <<XBop("+", XName("x"), XInt(1))>> >>,
                     << <<[x |-> "Call"]>> >>, << <<XInt(1), XInt(2)>> >>,
                     << <<XName("y")>>, <<XInt(1)>> >>}}
    \cup {AugmentedAssignment(<<XName("v")>>, op, <<e>>) :
            op \in {"+", "-", "*", "/"}, e \in {XInt(1), XString(<<"x">>)}}
    \cup {ForStatement(iterator, async, else_block) :
            iterator \in {<<XName("y")>>, <<[x |-> "Call"]>>, <<XName("y"), XName("z")>>},
            async \in BOOLEAN, else_block \in {None, Some(<<[s |-> "Pass"]>>)}}

TestValues == {MInt(0), MInt(1), MStr("")}

InitParse ==
    /\ last = NoOp
    /\ dicts = << >>
    /\ handles = << >>
    /\ NoConv

ParseStatement ==
    /\ \E statement \in Statements :
          last' = [op |-> "parse_statement", statement |-> statement,
                   res |-> parse_statement(statement)]
    /\ UNCHANGED <<dicts, handles>>
    /\ KeepOthers

\* An if statement is parsed and the node run with the tests' names bound.
ParseIf ==
    /\ \E n \in 1..MaxTests, has_else \in BOOLEAN, values \in [1..MaxTests -> TestValues] :
          \E res \in {parse_statement(IfStatement(n, has_else))} :
              last' = [op |-> "parse_if", n |-> n, has_else |-> has_else, values |-> values,
                       res |-> res,
                       frame |-> execute(<<res.val>>, 1,
                                         [i \in 1..MaxTests |-> <<TestName(i), values[i]>>], "")]
    /\ UNCHANGED <<dicts, handles>>
    /\ KeepOthers

NextParse == ParseStatement \/ ParseIf

SpecParse == InitParse /\ [][NextParse]_vars

(***************************************************************************)
(* The builtin runs: a builtin called with a few arguments, alone and as   *)
(* the operand of raise.                                                   *)
(***************************************************************************)
Builtins == {"print", "range", "len", "ValueError", "TypeError", "NameError"}

\* n and s are inputs of the program, u is bound nowhere.
BuiltinInputNames == <<"n", "s">>
BuiltinInputs == <<MInt(MaxVal), MStr("m")>>

ArgExprs ==
    {Constant(MInt(0 - 1)), Constant(MInt(0)), Constant(MStr("testing")),
     Name("n"), Name("s"), Name("u")}

CallArgs == {<< >>} \cup {<<a>> : a \in ArgExprs} \cup {<<a, b>> : a \in ArgExprs, b \in ArgExprs}

InitBuiltins ==
    /\ last = NoOp
    /\ dicts = << >>
    /\ handles = << >>
    /\ NoConv

CallFunction ==
    /\ \E self \in Builtins, args \in CallArgs :
          last' = [op |-> "call_function", self |-> self, args |-> args,
                   res |-> Builtins_call_function(
                               self, args,
                               prepare_namespace(BuiltinInputNames, BuiltinInputs), "")]
    /\ UNCHANGED <<dicts, handles>>
    /\ KeepOthers

\* raise self(args)
RaiseCall ==
    /\ \E self \in Builtins, args \in CallArgs :
          \E r \in {run_no_limits(MontyRun_new("raise", BuiltinInputNames,
                                               <<RaiseStmt(CallBuiltin(self, args))>>),
                                  BuiltinInputs)} :
              last' = [op |-> "raise", self |-> self, args |-> args, exit |-> r.exit]
    /\ UNCHANGED <<dicts, handles>>
    /\ KeepOthers

NextBuiltins == CallFunction \/ RaiseCall

SpecBuiltins == InitBuiltins /\ [][NextBuiltins]_vars

(***************************************************************************)
(* The loop runs: the program of the test for_loop_str_append_assign run   *)
(* one statement, and one iteration of its loop, at a time.  held is the   *)
(* frame: the position, the namespace, the loop's iterator when inside it. *)
(***************************************************************************)
\* v = ''; for i in range(n): if i % k == 0: v = v + 'x'   and then len(v)
ProgramFor(n, k) ==
    MontyRun_new("v = ''\nfor i in range(n):\n    if i % k == 0:\n        v = v + 'x'\nlen(v)",
                 << >>,
                 <<Assign("v", Constant(MStr(""))),
                   For("i", CallBuiltin("range", <<Constant(MInt(n))>>),
                       <<If(Op(Op(Name("i"), "%", Constant(MInt(k))), "==", Constant(MInt(0))),
                            <<Assign("v", Op(Name("v"), "+", Constant(MStr("x"))))>>, << >>)>>),
                   Expression(CallBuiltin("len", <<Name("v")>>))>>)

Sizes == 0..MaxIter \cup {TestSize}
Steps == 1..MaxStep \cup {TestStep}

InitLoop ==
    /\ \E n \in Sizes, k \in Steps :
          held = [n |-> n, k |-> k, nodes |-> ProgramFor(n, k).nodes, pc |-> 1,
                  namespace |-> prepare_namespace(<< >>, << >>), out |-> "",
                  loop |-> None, count |-> 0, val |-> MNone]
    /\ last = NoOp
    /\ dicts = << >>
    /\ handles = << >>
    /\ obj = None
    /\ ulast = NoOp
    /\ runs = None
    /\ env = None

KeepLoop == UNCHANGED <<dicts, handles, obj, ulast, runs, env>>

Running == last = NoOp /\ held.pc <= Len(held.nodes)

\* A statement other than for is executed whole.
ExecuteNode ==
    /\ Running
    /\ held.nodes[held.pc].n # "For"
    /\ \E f \in {execute_node(held.nodes[held.pc], held.namespace, held.out)} :
          IF f.t = "Frame"
          THEN /\ held' = [held EXCEPT !.pc = @ + 1, !.namespace = f.namespace,
                                       !.out = f.out, !.val = f.val]
               /\ UNCHANGED last
          ELSE /\ last' = [op |-> "run", exit |-> frame_exit_to_object(f)]
               /\ UNCHANGED held
    /\ KeepLoop

\* for evaluates its iter operand once and takes an iterator from it.
ForEnter ==
    /\ Running
    /\ held.nodes[held.pc].n = "For"
    /\ held.loop = None
    /\ \E r \in {evaluate(held.nodes[held.pc].iter, held.namespace, held.out)} :
          IF r.t = "Value" /\ iterate(r.val) # None
          THEN /\ held' = [held EXCEPT !.loop = [items |-> iterate(r.val).val, i |-> 1],
                                       !.out = r.out]
               /\ UNCHANGED last
          ELSE /\ last' = [op |-> "run",
                           exit |-> frame_exit_to_object(
                                        execute_node(held.nodes[held.pc], held.namespace,
                                                     held.out))]
               /\ UNCHANGED held
    /\ KeepLoop

\* One iteration: the target is bound to the next item and the body run.
ForNext ==
    /\ Running
    /\ held.loop # None
    /\ held.loop.i <= Len(held.loop.items)
    /\ \E f \in {execute(held.nodes[held.pc].body, 1,
                         SetItem(held.namespace, held.nodes[held.pc].target,
                                 held.loop.items[held.loop.i]),
                         held.out)} :
          IF f.t = "Frame"
          THEN /\ held' = [held EXCEPT !.loop.i = @ + 1, !.count = @ + 1,
                                       !.namespace = f.namespace, !.out = f.out]
               /\ UNCHANGED last
          ELSE /\ last' = [op |-> "run", exit |-> frame_exit_to_object(f)]
               /\ UNCHANGED held
    /\ KeepLoop

\* The iterator is exhausted: execution goes on after the loop.
ForEnd ==
    /\ Running
    /\ held.loop # None
    /\ held.loop.i > Len(held.loop.items)
    /\ held' = [held EXCEPT !.pc = @ + 1, !.loop = None, !.val = MNone]
    /\ UNCHANGED last
    /\ KeepLoop

\* After the last statement the run returns that statement's value.
Finish ==
    /\ last = NoOp
    /\ held.pc > Len(held.nodes)
    /\ last' = [op |-> "run",
                exit |-> frame_exit_to_object(Frame(held.namespace, held.out, held.val))]
    /\ UNCHANGED held
    /\ KeepLoop

NextLoop == ExecuteNode \/ ForEnter \/ ForNext \/ ForEnd \/ Finish

SpecLoop == InitLoop /\ [][NextLoop]_vars /\ WF_vars(NextLoop)

(***************************************************************************)
(* The executor runs: a program of one operation, on constants or on the   *)
(* input x, is built and, when that succeeds, run.                         *)
(***************************************************************************)
Operands == {MInt(n) : n \in 1..MaxVal} \cup {MStr("1"), MStr("a")}

\* The text of a constant: 1, '1'.
Literal(v) == IF v.m = "Int" THEN Decimal(v.n) ELSE "'" \o v.s \o "'"

SourceOf(expr) == IF expr.e = "Name" THEN expr.id ELSE Literal(expr.val)

Operations ==
    {[code |-> SourceOf(left) \o " " \o op \o " " \o Literal(right),
      expr |-> Op(left, op, Constant(right))] :
        left \in {Constant(v) : v \in Operands} \cup {Name("x")},
        op \in {"+", "%", "=="}, right \in Operands}

InitExecutor ==
    /\ last = NoOp
    /\ dicts = << >>
    /\ handles = << >>
    /\ NoConv

NewExecutor ==
    /\ \E operation \in Operations :
          last' = [op |-> "new", code |-> operation.code,
                   res |-> Executor_new(operation.code, <<"x">>, operation.expr)]
    /\ UNCHANGED <<dicts, handles>>
    /\ KeepOthers

\* ex.run(inputs) on the executor just built.
RunExecutor ==
    /\ last.op = "new"
    /\ last.res.ok
    /\ \E x \in Operands :
          \E r \in {run_no_limits(last.res.val, <<x>>)} :
              last' = [op |-> "run", code |-> last.code, inputs |-> <<x>>, exit |-> r.exit]
    /\ UNCHANGED <<dicts, handles>>
    /\ KeepOthers

NextExecutor == NewExecutor \/ RunExecutor

SpecExecutor == InitExecutor /\ [][NextExecutor]_vars

(***************************************************************************)
(* The registry's lifetime: every operation that is given a registry       *)
(* handle, in any order, on registries of Point and Line.  Only the        *)
(* registry is followed: last names the operation and tells whether it     *)
(* added to a registry that already held a type.                           *)
(***************************************************************************)
Kinds == {"Point", "Line"}

KindLists ==
    {None} \cup {[list |-> l] : l \in {<<PyType(c)>> : c \in Kinds}
                                       \cup {<<PyType("Line"), PyType("Point"), PyType("Line")>>}}

\* One Point and the Line that holds it.
HostValues == {PyInst("Point", [x |-> PyInt(1), y |-> PyInt(2)])} \cup LineInsts

\* The record of a Point, under Point's type_id.
PointRecord ==
    MDataclass("Point", Addr("Point"), <<"x", "y">>,
               << <<MStr("x"), MInt(1)>>, <<MStr("y"), MInt(2)>> >>, TRUE)

\* The operation op was made through handle h, which it leaves in place.
Seen(op, h) ==
    last' = [op |-> op,
             added |-> /\ DOMAIN Reg(h) # {}
                       /\ DOMAIN dicts'[handles[h].dict] # DOMAIN Reg(h)]

Quiet == UNCHANGED handles /\ KeepOthers

LifeNew ==
    /\ Len(dicts) < MaxDicts
    /\ Len(handles) < MaxHandles
    /\ dicts' = Append(dicts, DcRegistry_new)
    /\ handles' = Append(handles, [dict |-> Len(dicts) + 1, root |-> Len(handles) + 1])
    /\ last' = [op |-> "new", added |-> FALSE]
    /\ KeepOthers

LifeFromList ==
    \E list \in KindLists :
        /\ Len(dicts) < MaxDicts
        /\ Len(handles) < MaxHandles
        /\ \E r \in {DcRegistry_from_list(list)} :
              /\ r.ok
              /\ dicts' = Append(dicts, r.reg)
        /\ handles' = Append(handles, [dict |-> Len(dicts) + 1, root |-> Len(handles) + 1])
        /\ last' = [op |-> "from_list", added |-> FALSE]
        /\ KeepOthers

LifeCloneRef ==
    \E h \in DOMAIN handles :
        /\ Len(handles) < MaxHandles
        /\ \E r \in {DcRegistry_clone_ref(handles, dicts, h)} :
              /\ handles' = r.handles
              /\ dicts' = r.dicts
        /\ Seen("clone_ref", h)
        /\ KeepOthers

LifeInsert ==
    \E h \in DOMAIN handles, c \in Kinds :
        \E r \in {DcRegistry_insert(Reg(h), PyType(c))} :
            /\ SetReg(h, r.reg)
            /\ Seen("insert", h)
            /\ Quiet

LifeGet ==
    \E h \in DOMAIN handles, type_id \in {Addr(c) : c \in Kinds} \cup {0} :
        \E r \in {DcRegistry_get(Reg(h), type_id)} :
            /\ UNCHANGED dicts
            /\ Seen("get", h)
            /\ Quiet

LifePyToMonty ==
    \E h \in DOMAIN handles, value \in HostValues \cup {PyInt(1)} :
        \E r \in {py_to_monty(value, Reg(h))} :
            /\ SetReg(h, r.reg)
            /\ Seen("py_to_monty", h)
            /\ Quiet

LifeDataclassToMonty ==
    \E h \in DOMAIN handles, value \in HostValues :
        \E r \in {dataclass_to_monty(value, Reg(h))} :
            /\ SetReg(h, r.reg)
            /\ Seen("dataclass_to_monty", h)
            /\ Quiet

\* dataclass_to_py is given the registry to read: it returns no registry.
LifeDataclassToPy ==
    \E h \in DOMAIN handles, rec \in {PointRecord, HandMadePoint, BrokenPoint} :
        \E r \in {dataclass_to_py(rec.name, rec.type_id, rec.field_names, rec.attrs,
                                  rec.frozen, Reg(h))} :
            /\ UNCHANGED dicts
            /\ Seen("dataclass_to_py", h)
            /\ Quiet

LifeCall ==
    \E h \in DOMAIN handles, function_name \in Functions,
       args \in {<< >>, <<MInt(1)>>} :
        \E r \in {ExternalFunctionRegistry_call(function_name, args, << >>, Reg(h))} :
            /\ SetReg(h, r.reg)
            /\ Seen("call", h)
            /\ Quiet

LifeDispatchMethodCall ==
    \E h \in DOMAIN handles, function_name \in {"sum", "moved", "first"},
       args \in {<< >>, <<PointRecord>>} :
        \E r \in {dispatch_method_call(function_name, args, << >>, Reg(h))} :
            /\ SetReg(h, r.reg)
            /\ Seen("dispatch_method_call", h)
            /\ Quiet

\* A run of the engine is given no registry; its arguments, its external
\* calls and its result pass through the conversions above.
LifeRun ==
    \E ex \in {ProgramAdd, ProgramAppend} :
        \E r \in {run_no_limits(ex, << >>)} :
            /\ r.exit.t = "Return"
            /\ last' = [op |-> "run", added |-> FALSE]
            /\ UNCHANGED <<dicts, handles>>
            /\ KeepOthers

NextLifetime ==
    \/ LifeNew \/ LifeFromList \/ LifeCloneRef \/ LifeInsert \/ LifeGet
    \/ LifePyToMonty \/ LifeDataclassToMonty \/ LifeDataclassToPy
    \/ LifeCall \/ LifeDispatchMethodCall \/ LifeRun

SpecLifetime == InitRegistry /\ [][NextLifetime]_vars

(***************************************************************************)
(* Properties of running programs.                                         *)
(***************************************************************************)
NotImplemented(name) ==
    [kind |-> "NotImplementedError",
     msg |-> "Method call '" \o name \o "' not implemented with standard execution"]

\* C1: a run in standard execution whose evaluation reaches a method call
\* r.m(...) on a dataclass value ends with NotImplementedError "Method call
\* 'm' not implemented with standard execution": it returns no value and
\* hands no method call to the caller.
C1_MethodCallNotImplemented ==
    last.op = "run" =>
        /\ last.frame_exit.t = "MethodCall" =>
              /\ last.exit.t = "Raise"
              /\ last.exit.exc = NotImplemented(last.frame_exit.name)
        /\ last.code = "point.sum()" =>
              /\ last.exit.t = "Raise"
              /\ last.exit.exc = NotImplemented("sum")
        /\ last.exit.t \in {"Return", "Raise"}

\* point.sum() was run with the frozen Point x=1, y=2 of type_id 0.
C1_Witness ==
    /\ last.op = "run"
    /\ last.code = "point.sum()"
    /\ last.inputs = <<HandMadePoint>>
    /\ last.frame_exit.t = "MethodCall"
    /\ last.exit.t = "Raise"

SameFamily(h1, h2) == handles[h1].root = handles[h2].root

\* C6: handles obtained from one another by clone_ref, to any depth, observe
\* the same mapping: every get answers alike through each of them, and what
\* was just inserted through one is what get returns through every other.
C6_ClonesShareInserts ==
    /\ \A h1 \in DOMAIN handles, h2 \in DOMAIN handles :
          SameFamily(h1, h2) =>
              \A t \in TypeIds \cup {0} :
                  DcRegistry_get(Reg(h1), t) = DcRegistry_get(Reg(h2), t)
    /\ last.op = "insert" /\ last.ok =>
          \A h2 \in DOMAIN handles :
              SameFamily(last.h, h2) =>
                  DcRegistry_get(Reg(h2), last.type_id) = [some |-> TRUE, val |-> last.obj]

\* An insert through a clone of a clone, with its family's other handles there
\* to see it, and a registry of another family that does not hold the type.
C6_Witness ==
    /\ last.op = "insert"
    /\ \E h2 \in DOMAIN handles, h3 \in DOMAIN handles :
          /\ Cardinality({last.h, h2, h3}) = 3
          /\ SameFamily(last.h, h2)
          /\ \/ SameFamily(last.h, h3)
             \/ DcRegistry_get(Reg(h3), last.type_id) = None

\* C7: insert always succeeds; afterwards the registry maps the type's id to
\* the type and every other entry is what it was, so inserting a type that is
\* already there changes nothing; from_list of a list that repeats a type
\* gives the registry of the list's distinct types.
C7_InsertIdempotent ==
    /\ last.op = "insert" =>
          LET after == Reg(last.h)
          IN  /\ last.ok
              /\ DOMAIN after = DOMAIN last.before \cup {last.type_id}
              /\ after[last.type_id] = last.obj
              /\ \A k \in DOMAIN last.before \ {last.type_id} : after[k] = last.before[k]
              /\ last.type_id \in DOMAIN last.before => after = last.before
    /\ last.op = "from_list" =>
          /\ last.ok
          /\ LET types == IF last.list = None THEN {}
                          ELSE {last.list.list[i] : i \in DOMAIN last.list.list}
             IN  /\ DOMAIN Reg(last.h) = {Addr(t.cls) : t \in types}
                 /\ \A t \in types : Reg(last.h)[Addr(t.cls)] = t

\* A type inserted again into a registry that holds it and another type.
C7_Witness ==
    /\ last.op = "insert"
    /\ last.type_id \in DOMAIN last.before
    /\ DOMAIN last.before # {last.type_id}

(***************************************************************************)
(* Properties of the conversions.                                          *)
(***************************************************************************)
\* C3: a host record whose type is in the registry, converted by
\* dataclass_to_monty and back by dataclass_to_py, comes back as an instance
\* of the same type whose declared fields all equal the original's.
C3_RoundTrip ==
    last.op = "dataclass_to_py" /\ last.src # None /\ last.known =>
        /\ last.res.ok
        /\ last.res.val.py = "inst"
        /\ last.res.val.cls = last.src.cls
        /\ \A f \in DeclaredFields(last.src.cls) :
              /\ f \in DOMAIN last.res.val.vals
              /\ last.res.val.vals[f] = last.src.vals[f]

\* The declared string-keyed attrs of a record: positions in attrs.
DeclaredAttrs(rec) ==
    {i \in DOMAIN rec.attrs :
        /\ rec.attrs[i][1].m = "String"
        /\ \E j \in DOMAIN rec.field_names : rec.field_names[j] = rec.attrs[i][1].s}

\* C4: with the type_id in the registry the registered type is called with
\* keyword arguments that are exactly the attrs whose key is a string naming a
\* declared field; with the type_id absent the result is an UnknownDataclass
\* that carries the record's name, field names, all attrs and frozen flag.
C4_KwargsOrUnknown ==
    last.op = "dataclass_to_py" =>
        LET rec == last.rec
            reg == Reg(last.h)
        IN  IF last.known
            THEN /\ last.res.calls # << >>
                 /\ LET call == last.res.calls[Len(last.res.calls)]
                    IN  /\ call.type = reg[rec.type_id]
                        /\ Keys(call.kwargs) = {rec.attrs[i][1].s : i \in DeclaredAttrs(rec)}
                        /\ Len(call.kwargs) = Cardinality(DeclaredAttrs(rec))
                        /\ \A i \in DeclaredAttrs(rec) :
                              GetItem(call.kwargs, rec.attrs[i][1].s)
                                  = monty_to_py(rec.attrs[i][2], reg).val
            ELSE /\ last.res.ok
                 /\ last.res.val.py = "UnknownDataclass"
                 /\ last.res.val.name = rec.name
                 /\ last.res.val.field_names = rec.field_names
                 /\ last.res.val.frozen = rec.frozen
                 /\ last.res.val.attrs = [i \in DOMAIN rec.attrs |->
                        <<monty_to_py(rec.attrs[i][1], reg).val,
                          monty_to_py(rec.attrs[i][2], reg).val>>]

\* A registered Point rebuilt from attrs that hold both fields, an extra attr
\* and a key that is no string.
C4_Witness ==
    /\ last.op = "dataclass_to_py"
    /\ last.known
    /\ last.res.ok
    /\ Cardinality(DeclaredAttrs(last.rec)) = 2
    /\ Len(last.rec.attrs) = 4

RECURSIVE RecordsIn(_)
\* The Dataclass values in a MontyObject, itself included.
RecordsIn(o) ==
    CASE o.m = "Dataclass" ->
            {o} \cup UNION {RecordsIn(o.attrs[i][2]) : i \in DOMAIN o.attrs}
      [] o.m = "List" -> UNION {RecordsIn(o.items[i]) : i \in DOMAIN o.items}
      [] OTHER -> {}

\* What the last host-to-engine conversion produced.
FlowedIn ==
    CASE last.op = "py_to_monty" /\ last.res.ok -> {last.res.val}
      [] last.op \in {"call", "dispatch_method_call"} /\ last.reply.reply = "Return" ->
            {last.reply.val}
      [] OTHER -> {}

\* C5: once a host record instance has been converted host-to-engine, as an
\* argument, nested in a field, or as what an external function or method
\* returned, the registry holds the instance's type under the record's type_id.
C5_AutoRegistered ==
    /\ \A o \in FlowedIn : \A r \in RecordsIn(o) :
          /\ r.type_id \in DOMAIN Reg(last.h)
          /\ Reg(last.h)[r.type_id] = PyType(ClassOfAddr(r.type_id))
          /\ r.name = ClassOfAddr(r.type_id)
    /\ last.op = "py_to_monty" /\ last.res.ok => last.res.val.type_id = Addr(last.src.cls)

\* An external function returned a Line, a type nobody registered, with a
\* Point nested in it.
C5_Witness ==
    /\ last.op = "call"
    /\ last.reply.reply = "Return"
    /\ last.reply.val.m = "Dataclass"
    /\ last.reply.val.name = "Line"
    /\ \E r \in RecordsIn(last.reply.val) : r.name = "Point"

(***************************************************************************)
(* Properties of UnknownDataclass.                                         *)
(***************************************************************************)
Entries(attrs) == {attrs[i] : i \in DOMAIN attrs}

\* C8 as stated: __eq__ is true iff the other value is an UnknownDataclass
\* with the same name whose attrs are the same entries in the same order.
C8_EqOrderSensitive ==
    ulast.op = "eq" =>
        (ulast.res <=> /\ ulast.other.py = "UnknownDataclass"
                       /\ ulast.other.name = obj.name
                       /\ ulast.other.attrs = obj.attrs)

\* C8, amended: __eq__ is true iff the other value is an UnknownDataclass with
\* the same name whose attrs hold the same entries, in whatever order.
C8_EqAnyOrder ==
    ulast.op = "eq" =>
        (ulast.res <=> /\ ulast.other.py = "UnknownDataclass"
                       /\ ulast.other.name = obj.name
                       /\ Entries(ulast.other.attrs) = Entries(obj.attrs))

\* Two UnknownDataclasses with the same two entries in opposite orders
\* compared equal.
C8_Witness ==
    /\ ulast.op = "eq"
    /\ ulast.res
    /\ Len(obj.attrs) = 2
    /\ ulast.other.attrs # obj.attrs

\* C9: __setattr__ on a frozen object fails with FrozenInstanceError and
\* leaves the object as it was; on a non-frozen one it succeeds, for a declared
\* name or any other, and reading the attribute then gives the value set.
C9_FrozenSetattr ==
    ulast.op = "setattr" =>
        IF ulast.before.frozen
        THEN /\ ~ulast.res.ok
             /\ ulast.res.exc.kind = "FrozenInstanceError"
             /\ obj = ulast.before
        ELSE /\ ulast.res.ok
             /\ PyUnknownDataclass_getattr(obj, ulast.name) = Ok(ulast.value)

\* A frozen object that holds attrs was assigned to.
C9_Witness ==
    /\ ulast.op = "setattr"
    /\ ulast.before.frozen
    /\ ulast.before.attrs # << >>

RECURSIVE FieldWrites(_, _)
\* What the declared fields from position i on contribute to the hash: the
\* name, then the hash of the value when attrs holds one.
FieldWrites(self, i) ==
    IF i > Len(self.field_names) THEN << >>
    ELSE LET f == self.field_names[i]
         IN  (IF HasKey(self.attrs, PyStr(f))
              THEN <<[str |-> f], PyHash(GetItem(self.attrs, PyStr(f))).val>>
              ELSE <<[str |-> f]>>) \o FieldWrites(self, i + 1)

\* C10: __hash__ of a non-frozen object fails with TypeError; of a frozen one
\* it is the digest of the declared field names in declaration order, each
\* with its value's hash, and fails only when a field's value is unhashable.
C10_HashOnlyFrozen ==
    ulast.op = "hash" =>
        IF ~obj.frozen
        THEN ulast.res = Err("TypeError", "unhashable type: 'UnknownDataclass'")
        ELSE IF \E i \in DOMAIN obj.field_names :
                    /\ HasKey(obj.attrs, PyStr(obj.field_names[i]))
                    /\ ~Hashable(GetItem(obj.attrs, PyStr(obj.field_names[i])))
        THEN ~ulast.res.ok /\ ulast.res.exc.kind = "TypeError"
        ELSE ulast.res = Ok(from_ne_bytes(finish(FieldWrites(obj, 1))))

\* A frozen object with both declared fields set was hashed.
C10_Witness ==
    /\ ulast.op = "hash"
    /\ obj.frozen
    /\ ulast.res.ok
    /\ obj.field_names = <<"x", "y">>
    /\ Len(obj.attrs) = 2


RECURSIVE ShownFields(_, _)
\* "f=repr(v)" for the declared fields from position i on that attrs holds,
\* each after a ", " unless it is the first one shown.
ShownFields(self, i) ==
    IF i > Len(self.field_names) THEN ""
    ELSE LET f == self.field_names[i]
             leading == \A j \in 1..(i - 1) : ~HasKey(self.attrs, PyStr(self.field_names[j]))
         IN  (IF HasKey(self.attrs, PyStr(f))
              THEN (IF leading THEN "" ELSE ", ") \o f \o "=" \o PyRepr(GetItem(self.attrs, PyStr(f)))
              ELSE "") \o ShownFields(self, i + 1)

Unconvertible == last.args = <<BrokenPoint>> /\ Addr("Point") \in last.before

ErrorReply(kind) == last.reply.reply = "Error" /\ last.reply.exc.kind = kind

\* C12: call and dispatch_method_call answer with one reply, Return with a
\* value or Error with an exception; an unknown function name, a callable
\* that raises, a missing method, an argument or a result that cannot be
\* converted each give the Error reply with the host exception's kind and
\* message.
C12_AlwaysOneReply ==
    last.op \in {"call", "dispatch_method_call"} =>
        /\ \/ last.reply.reply = "Return" /\ DOMAIN last.reply = {"reply", "val", "invoked"}
           \/ last.reply.reply = "Error" /\ DOMAIN last.reply = {"reply", "exc", "invoked"}
        /\ last.op = "call" =>
              /\ last.name \notin Functions =>
                    /\ ErrorReply("KeyError")
                    /\ last.reply.exc.msg = "External function '" \o last.name \o "' not found"
              /\ last.name \in Functions /\ Unconvertible =>
                    ErrorReply("TypeError") /\ last.reply.invoked = << >>
              /\ last.name = "boom" /\ ~Unconvertible =>
                    IF last.args = << >> /\ last.kwargs = << >>
                    THEN ErrorReply("ValueError") /\ last.reply.exc.msg = "boom"
                    ELSE ErrorReply("TypeError")
              /\ last.name = "type_of" /\ ~Unconvertible /\ Len(last.args) = 1
                    /\ last.kwargs = << >> =>
                    ErrorReply("TypeError") /\ Len(last.reply.invoked) = 1
        /\ last.op = "dispatch_method_call" =>
              /\ last.args = << >> =>
                    /\ ErrorReply("RuntimeError")
                    /\ last.reply.exc.msg = "Method call missing self argument"
              /\ Unconvertible => ErrorReply("TypeError") /\ last.reply.invoked = << >>
              /\ last.args # << >> /\ ~Unconvertible /\ last.name = "nope" =>
                    ErrorReply("AttributeError") /\ last.reply.invoked = << >>

\* A host function was called and what it returned could not be converted.
C12_Witness ==
    /\ last.op = "call"
    /\ last.name = "type_of"
    /\ Len(last.reply.invoked) = 1
    /\ ErrorReply("TypeError")


\* The host value of an Int or a String.
Plain(o) == IF o.m = "Int" THEN PyInt(o.n) ELSE PyStr(o.s)

\* The receiver is a record of a registered type that has the method.
ReceiverHas(name) ==
    /\ last.args # << >>
    /\ last.args[1].m = "Dataclass"
    /\ last.args[1] # BrokenPoint
    /\ last.args[1].type_id \in last.before
    /\ \/ ClassOfAddr(last.args[1].type_id) = "Point" /\ name \in {"sum", "moved"}
       \/ ClassOfAddr(last.args[1].type_id) = "Line" /\ name = "first"

Spelled(statement) ==
    Assignment(statement.lhs,
               <<<<XBop(statement.op, statement.lhs[1], statement.rhs[1])>>>>)

\* C13: an augmented assignment x += e (and -=, *=, /=) is accepted, and
\* run in any namespace it ends as x = x + e does: the same bindings, the
\* same exit, NameError when x is unbound.
C13_AugmentedAssignment ==
    last.op = "parse_statement" /\ last.statement.s = "AugmentedAssignment" =>
        /\ last.res.r = "Ok"
        /\ parse_statement(Spelled(last.statement)).r = "Ok"
        /\ \A namespace \in {<< >>, << <<"v", MStr("")>> >>, << <<"v", MInt(1)>> >>} :
              execute(<<last.res.val>>, 1, namespace, "")
                  = execute(<<parse_statement(Spelled(last.statement)).val>>, 1, namespace, "")

RECURSIVE Nested(_, _)
\* node is the If for test i: its body is test i's body, its or_else the one
\* node for test i + 1, or after the last test the else block.
Nested(node, i) ==
    /\ node.n = "If"
    /\ node.test = Name(TestName(i))
    /\ node.body = <<Assign("r", Constant(MInt(i)))>>
    /\ IF i < last.n
       THEN Len(node.or_else) = 1 /\ Nested(node.or_else[1], i + 1)
       ELSE node.or_else = IF last.has_else THEN <<Assign("r", Constant(MInt(0)))>> ELSE << >>

\* C19: parse_compound turns if t1 / elif t2 / ... / else into nested If
\* nodes, each holding its test's body and, as or_else, the one node of the
\* next test, the last holding the else block or nothing; run, the nested
\* form executes the body of the first truthy test and the else block only
\* when no test is truthy.
C19_IfDesugared ==
    last.op = "parse_if" =>
        /\ last.res.r = "Ok"
        /\ Nested(last.res.val, 1)
        /\ last.frame.t = "Frame"
        /\ LET truthy == {i \in 1..last.n : last.values[i] \notin {MInt(0), MStr("")}}
               ran == IF truthy # {} THEN {CHOOSE i \in truthy : \A j \in truthy : i <= j}
                      ELSE IF last.has_else THEN {0} ELSE {}
           IN  /\ ran = {} => ~HasKey(last.frame.namespace, "r")
               /\ \A i \in ran : /\ HasKey(last.frame.namespace, "r")
                                 /\ GetItem(last.frame.namespace, "r") = MInt(i)

\* if / elif / elif / else was parsed and run with only the last test truthy.
C19_Witness ==
    /\ last.op = "parse_if"
    /\ last.n = 3
    /\ last.has_else
    /\ last.values[1] = MInt(0)
    /\ last.values[2] = MStr("")
    /\ last.values[3] = MInt(1)
    /\ GetItem(last.frame.namespace, "r") = MInt(3)


(***************************************************************************)
(* Properties of the builtins.                                             *)
(***************************************************************************)
\* What an argument of the builtin runs evaluates to, None when it raises.
ArgValue(arg) ==
    CASE arg = Name("n") -> Some(BuiltinInputs[1])
      [] arg = Name("s") -> Some(BuiltinInputs[2])
      [] arg = Name("u") -> None
      [] OTHER -> Some(arg.val)

OneString(args) ==
    /\ Len(args) = 1
    /\ ArgValue(args[1]) # None
    /\ ArgValue(args[1]).val.m = "String"

C17_RangeNonNegative ==
    last.op = "call_function" /\ last.self = "range" /\ last.res.t = "Value" =>
        /\ Len(last.args) = 1
        /\ ArgValue(last.args[1]) # None
        /\ ArgValue(last.args[1]).val.m = "Int"
        /\ ArgValue(last.args[1]).val.n >= 0
        /\ last.res.val = MRange(ArgValue(last.args[1]).val.n)
        /\ last.res.val.size >= 0


(***************************************************************************)
(* Properties of __eq__ and __hash__ together.                             *)
(***************************************************************************)
\* C20: hash is consistent with equality on frozen objects: when a == b
\* holds for two frozen UnknownDataclasses, hash(a) and hash(b) are the
\* same, whatever field names each declares and whatever attrs they carry.
C20_HashFollowsEq ==
    ulast.op = "eq" /\ ulast.res /\ obj.frozen /\ ulast.other.frozen =>
        PyUnknownDataclass_hash(obj) = PyUnknownDataclass_hash(ulast.other)


(***************************************************************************)
(* Properties of the for loop.                                             *)
(***************************************************************************)
\* The number of i in 0..count-1 with i % k = 0.
Multiples(count, k) == (count + k - 1) \div k

\* Inside the loop after count iterations i is count - 1 and v has grown by
\* one 'x' for each multiple of k met; past the loop the body has run n
\* times; the run returns the number of multiples below n, as the run of
\* the whole program at once does.
LoopInv ==
    /\ held.loop # None =>
          /\ Len(held.loop.items) = held.n
          /\ held.count = held.loop.i - 1
          /\ held.count <= held.n
          /\ held.count > 0 => GetItem(held.namespace, "i") = MInt(held.count - 1)
          /\ Len(GetItem(held.namespace, "v").s) = Multiples(held.count, held.k)
    /\ held.pc > 2 =>
          /\ held.count = held.n
          /\ IF held.n = 0 THEN ~HasKey(held.namespace, "i")
             ELSE GetItem(held.namespace, "i") = MInt(held.n - 1)
    /\ last.op = "run" =>
          /\ held.pc = 4
          /\ last.exit = Return(MInt(Multiples(held.n, held.k)), "")
          /\ held.n = TestSize /\ held.k = TestStep => last.exit.val = MInt(77)
          /\ held.n <= MaxIter => last.exit = run_no_limits(ProgramFor(held.n, held.k), << >>).exit

C15_AddIntStrRaisesInRun ==
    last.op = "new" /\ last.code = "1 + '1'" =>
        /\ last.res.ok
        /\ run_no_limits(last.res.val, <<MInt(1)>>).exit
              = Raise("TypeError", "unsupported operand type(s) for +: 'int' and 'str'", "")


(***************************************************************************)
(* Properties of the registry over its lifetime.                           *)
(***************************************************************************)
\* Every key is the identity of the type it maps to.
KeysAreIdentities ==
    \A d \in DOMAIN dicts : \A k \in DOMAIN dicts[d] :
        /\ dicts[d][k].py = "type"
        /\ Addr(dicts[d][k].cls) = k

\* A step leaves every handle on its dict, and every entry of every dict.
EntriesStay ==
    /\ \A h \in DOMAIN handles : h \in DOMAIN handles' /\ handles'[h] = handles[h]
    /\ \A d \in DOMAIN dicts :
          /\ d \in DOMAIN dicts'
          /\ \A k \in DOMAIN dicts[d] : k \in DOMAIN dicts'[d] /\ dicts'[d][k] = dicts[d][k]

\* get, and the operations that only read the registry, leave every dict as it is.
ReadsLeave ==
    last'.op \in {"get", "dataclass_to_py", "clone_ref", "run"} => dicts' = dicts

\* C21: the registry only grows: after any sequence of new, from_list,
\* clone_ref, insert, get, conversions, external calls and runs every
\* type_id once present is still present (no operation removes an entry and
\* get never changes the registry), and every key k maps to the host type
\* whose identity is k.
C21_RegistryOnlyGrows == [](KeysAreIdentities) /\ [][EntriesStay /\ ReadsLeave]_vars

\* An external call added a type to a registry that held one, with another
\* handle on the same dict and a second registry beside it.
C21_Witness ==
    /\ last.op = "call"
    /\ last.added
    /\ Len(dicts) = 2
    /\ Len(handles) = 3
    /\ \E d \in DOMAIN dicts : Cardinality(DOMAIN dicts[d]) = 2


====
